---- MODULE Spec2Model ----
(***************************************************************************)
(* Media storage layer of the incus backend: StorageService (object store  *)
(* + catalog rows), the artist and track services that call it, the        *)
(* storage/track streaming endpoints and the gallery reorder operations.   *)
(***************************************************************************)
EXTENDS Integers, Sequences, FiniteSets, TLC

None == "none"

\* ---------------------------------------------------------------- bounds
\* Date.now() takes the values 0..MaxClock
MaxClock == 1
\* number of upload calls (StorageService.upload*) over a whole run
MaxUploads == 2
\* number of gallery files in one create/update request
MaxGallery == 2

\* ------------------------------------------------------ upload policies
IMAGE_MAX_FILE_SIZE == 10 * 1024 * 1024
AUDIO_MAX_FILE_SIZE == 100 * 1024 * 1024
DOWNLOAD_MAX_FILE_SIZE == 1024 * 1024 * 1024

IMAGE_UPLOAD_CONFIG ==
  [maxFileSize |-> IMAGE_MAX_FILE_SIZE,
   allowedMimeTypes |-> {"image/jpeg", "image/png", "image/webp",
                         "image/gif", "image/bmp", "image/tiff"},
   allowedExtensions |-> {".jpg", ".jpeg", ".png", ".webp", ".gif",
                          ".bmp", ".tiff"}]

AUDIO_UPLOAD_CONFIG ==
  [maxFileSize |-> AUDIO_MAX_FILE_SIZE,
   allowedMimeTypes |-> {"audio/mpeg", "audio/wav", "audio/flac",
                         "audio/ogg", "audio/aac", "audio/mp4"},
   allowedExtensions |-> {".mp3", ".wav", ".flac", ".ogg", ".aac", ".m4a"}]

DOWNLOAD_UPLOAD_CONFIG ==
  [maxFileSize |-> DOWNLOAD_MAX_FILE_SIZE,
   allowedMimeTypes |-> {"application/zip", "application/x-zip-compressed",
                         "application/x-rar-compressed", "application/pdf",
                         "application/octet-stream"},
   allowedExtensions |-> {".zip", ".rar", ".pdf", ".bin"}]

PolicyOf(cat) ==
  CASE cat = "image" -> IMAGE_UPLOAD_CONFIG
    [] cat = "audio" -> AUDIO_UPLOAD_CONFIG
    [] OTHER -> DOWNLOAD_UPLOAD_CONFIG

\* ------------------------------------------------------- uploaded files
\* An Express.Multer.File as far as the code looks at it:
\*   base, ext    originalname = base + ext (ext is "" when there is no dot)
\*   size         file.size, bytes
\*   declared     file.mimetype as multer took it from the client
\*   sniff        value of fileTypeFromBuffer(buffer), None when undefined
\*   sig          the buffer starts with an MZ / ELF / CAFEBABE / FEEDFACE
\*   scriptAt     offset of the first script marker in the buffer, -1 if none
\*   decodable    sharp(buffer).metadata() / music-metadata can parse the
\*                buffer
\*   transcodable the sharp pipeline of compressImage (toBuffer) succeeds on
\*                the buffer
FileInfo ==
  [ImgA   |-> [base |-> "a", ext |-> ".jpg", size |-> 2048,
               declared |-> "image/jpeg",
               sniff |-> "image/jpeg", sig |-> FALSE, scriptAt |-> -1,
               decodable |-> TRUE, transcodable |-> TRUE],
   ImgBig |-> [base |-> "a", ext |-> ".jpg", size |-> IMAGE_MAX_FILE_SIZE + 1,
               declared |-> "image/jpeg",
               sniff |-> "image/jpeg", sig |-> FALSE, scriptAt |-> -1,
               decodable |-> TRUE, transcodable |-> TRUE],
   ImgCut |-> [base |-> "c", ext |-> ".jpg", size |-> 1024,
               declared |-> "image/jpeg",
               sniff |-> "image/jpeg", sig |-> FALSE, scriptAt |-> -1,
               decodable |-> FALSE, transcodable |-> FALSE],
   ImgGif |-> [base |-> "g", ext |-> ".gif", size |-> 1024,
               declared |-> "image/gif",
               sniff |-> "image/gif", sig |-> FALSE, scriptAt |-> -1,
               decodable |-> TRUE, transcodable |-> FALSE],
   Exe    |-> [base |-> "x", ext |-> ".jpg", size |-> 4096,
               declared |-> "image/jpeg",
               sniff |-> "application/x-msdownload", sig |-> TRUE,
               scriptAt |-> -1, decodable |-> FALSE,
               transcodable |-> FALSE],
   AudA   |-> [base |-> "t", ext |-> ".mp3", size |-> 4,
               declared |-> "audio/mpeg",
               sniff |-> "audio/mpeg", sig |-> FALSE, scriptAt |-> -1,
               decodable |-> TRUE, transcodable |-> FALSE],
   Zip    |-> [base |-> "d", ext |-> ".zip", size |-> 8192,
               declared |-> "application/zip",
               sniff |-> "application/zip", sig |-> FALSE, scriptAt |-> -1,
               decodable |-> TRUE, transcodable |-> FALSE]]

Files == DOMAIN FileInfo

\* String.prototype.toLowerCase on the extensions that occur
ToLowerCase(e) ==
  CASE e = ".JPG" -> ".jpg"
    [] e = ".PNG" -> ".png"
    [] e = ".MP3" -> ".mp3"
    [] OTHER -> e

\* file names refused whatever their content: /\.php$/i ... /\.htm$/i
SuspiciousExtensions == {".php", ".jsp", ".asp", ".js", ".html", ".htm"}

\* FileValidationPipe.validateImageFile reads headerBytes.toString('utf8', 0,
\* min(512, headerBytes.length)) of buffer.subarray(0, 1024)
HEADER_SCAN_BYTES == 512
\* file.buffer.subarray(0, 1024)
HEADER_BYTES == 1024

\* the longest script marker validateImageFile looks for is taken to be
\* "<?php": a marker at offset k lies in bytes k .. k + MARKER_BYTES - 1
MARKER_BYTES == 5

\* the size check with the bound refused as well
TooLarge_Inclusive(file, config) == file.size >= config.maxFileSize

\* `file.size > this.config.maxFileSize`
TooLarge(file, config) == file.size > config.maxFileSize

\* the declared type kept instead of the verified one
VerifiedMimeType_Declared(file) == file.declared

\* `file.mimetype = fileTypeResult.mime`
VerifiedMimeType(file) == file.sniff

\* FileValidationPipe.transform on a file record: "ok" or the reason of the
\* BadRequestException
Validate(file, config) ==
  IF TooLarge(file, config) THEN "size"
  ELSE IF (file.base \o file.ext) # ""
          /\ ToLowerCase(file.ext) \notin config.allowedExtensions
       THEN "extension"
  ELSE IF file.sniff = None THEN "undetermined"
  ELSE IF file.sniff \notin config.allowedMimeTypes THEN "mime"
  ELSE IF file.sig THEN "signature"
  ELSE IF (file.base \o file.ext) # ""
          /\ ToLowerCase(file.ext) \in SuspiciousExtensions
       THEN "filename"
  ELSE IF VerifiedMimeType(file) \in IMAGE_UPLOAD_CONFIG.allowedMimeTypes
          /\ file.scriptAt >= 0
          /\ file.scriptAt + MARKER_BYTES <= HEADER_SCAN_BYTES
       THEN "script"
  ELSE "ok"

\* FileValidationPipe.transform on one of the named files
FileValidationPipe(f, config) == Validate(FileInfo[f], config)

\* ---------------------------------------------------- image compression
\* ImageCompressionUtil.isJpegFormat
isJpegFormat(mimeType) == mimeType \in {"image/jpeg", "image/jpg"}

\* outputMimeType of the try block of compressImage: JPEG, PNG and WebP
\* keep their format, any other format is converted to JPEG
NarrowedMimeType(originalMimeType) ==
  IF isJpegFormat(originalMimeType) THEN "image/jpeg"
  ELSE IF originalMimeType = "image/png" THEN "image/png"
  ELSE IF originalMimeType = "image/webp" THEN "image/webp"
  ELSE "image/jpeg"

\* ImageCompressionUtil.compressImage(buffer, originalMimeType): the
\* mimeType of the result and whether the result is the compressed buffer
\* (the catch returns the input buffer with compressionRatio 0)
compressImage(f, originalMimeType) ==
  IF FileInfo[f].transcodable
  THEN [compressed |-> TRUE, mimeType |-> NarrowedMimeType(originalMimeType)]
  ELSE [compressed |-> FALSE, mimeType |-> originalMimeType]

\* -------------------------------------------------------------- buckets
BucketOf(cat) ==
  CASE cat = "image" -> "incus-images"
    [] cat = "audio" -> "incus-audio"
    [] OTHER -> "incus-downloads"

\* FileMetadataUtil.generateUniqueFilename(originalName) at Date.now() = now:
\* `${nameWithoutExt}-${timestamp}${extension}`
generateUniqueFilename(f, now) ==
  [base |-> FileInfo[f].base, ts |-> now,
   ext |-> ToLowerCase(FileInfo[f].ext)]

\* the address (bucketName, key) of an upload; key = `${folder}/${filename}`
AddrOf(cat, folder, f, now) ==
  [bucket |-> BucketOf(cat),
   key |-> [folder |-> folder, filename |-> generateUniqueFilename(f, now)]]

\* ---------------------------------------------------------------- state
VARIABLES
  clock,     \* Date.now()
  uploads,   \* number of upload calls started so far
  store,     \* object store: set of blobs [addr, body, size]; body is the
             \* upload that put it
  rows,      \* catalog: Image / AudioFile / DownloadFile rows
  artist,    \* the artist entity: [exists, bannerImageId, images]
  track,     \* the track entity: [exists, audioFileId]
  op,        \* the handler in progress, "idle" when none
  pc,        \* its position
  args,      \* its arguments
  snap,      \* what it read at its start: the rows it will delete or the
             \* gallery it reorders, in order (todo), and
             \* existingArtist.images.length (count); the writes of its
             \* Promise.all still in flight (pending), one has failed (thrown)
  tx,        \* the writes of its open $transaction, not yet committed
  tasks,     \* its upload calls: sequence of upload records
  puts,      \* history: successful PutObject calls, [id, addr]
  everRows,  \* history: every row ever created, [id, addr]
  removed    \* history: the images a removeImage call has removed

VARIABLE
  req        \* the serve / stream request in progress and its response

VARIABLES
  pipe,      \* the upload request passing through FileValidationPipe
  cache      \* CacheService: the redis keys and the wrap call in progress

VARIABLES
  other,     \* a second handler call, parked while the first one runs
  turn,      \* which of the two calls is the running one (1 or 2)
  auth,      \* the sessions table and the login calls in progress
  dto        \* the imageOrders of a create / update and the orders written

parVars == <<other, turn, auth, dto>>
sideVars == <<pipe, cache, parVars>>

\* no upload request at the pipe
NoPipe == [pc |-> "idle", cat |-> None, file |-> None, outcome |-> None,
           mimetype |-> None, stored |-> None]

\* the values fn of a wrap call returns, and their JSON texts
JsNull == "js null"
JsUndefined == "js undefined"
JsValues == {JsNull, JsUndefined, "js 0", "js false", "js object"}
CacheKeys == {"artists", "releases"}

\* redis holds no key, no wrap call is in progress
NoCache == [redis |-> [k \in CacheKeys |-> None], pc |-> "idle",
            key |-> None, cached |-> None, result |-> None, ret |-> None,
            ranFn |-> FALSE, getFailed |-> FALSE]

storeVars == <<clock, uploads, store, rows, artist, track, op, pc, args,
               snap, tx, tasks, puts, everRows, removed>>

\* row ids are 1, 2, ...; NoId stands for null
NoId == 0
NoAddr == [bucket |-> None,
           key |-> [folder |-> None,
                    filename |-> [base |-> None, ts |-> -1, ext |-> None]]]
NoTx == [active |-> FALSE, del |-> {}]
NoArgs == [banner |-> None, gallery |-> <<>>, audio |-> None,
           imageId |-> NoId, bannerImageId |-> NoId,
           imageOrders |-> <<>>, newOrder |-> 0]
NoSnap == [todo |-> <<>>, count |-> 0, pending |-> {}, thrown |-> FALSE,
           result |-> <<>>]
NoArtist == [exists |-> FALSE, bannerImageId |-> NoId, images |-> {}]
NoTrack == [exists |-> FALSE, audioFileId |-> NoId]

\* a handler call that has not started: what a call keeps between awaits
NoCall == [op |-> "idle", pc |-> "idle", args |-> NoArgs, snap |-> NoSnap]

\* the logins of one user: no session row, no login in progress
Logins == {1, 2}
NoAuth == [sessions |-> {}, login |-> [p \in Logins |-> "idle"]]

\* no create / update with images has computed its orders
NoDto == [orders |-> <<>>, existing |-> 0, stored |-> <<>>]

\* one call of StorageService.uploadImage / uploadAudio / uploadDownload
NewTask(id, f, cat, folder, isPublic) ==
  [id |-> id, file |-> f, cat |-> cat, folder |-> folder,
   isPublic |-> isPublic, pc |-> "process", addr |-> NoAddr,
   s3 |-> <<>>, rowFailed |-> FALSE,
   mimeType |-> FileInfo[f].declared, compressed |-> FALSE]

Settled(t) == t.pc \in {"done", "failed"}

Blob(addr) == {b \in store : b.addr = addr}
BlobExists(addr) == Blob(addr) # {}

Row(id) == CHOOSE r \in rows : r.id = id
RowIds == {r.id : r \in rows}

\* StorageService.generatePublicUrl / generatePrivateUrl
generatePublicUrl(addr) == [scheme |-> "public", addr |-> addr]
generatePrivateUrl(addr) == [scheme |-> "private", addr |-> addr]

\* the row written by databaseService.image / audioFile / downloadFile.create
NewRow(t) ==
  [id |-> t.id, cat |-> t.cat, addr |-> t.addr, file |-> t.file,
   mimeType |-> t.mimeType,
   isPublic |-> IF t.cat = "audio" THEN t.isPublic ELSE FALSE,
   url |-> IF t.cat = "download" THEN generatePrivateUrl(t.addr)
           ELSE generatePublicUrl(t.addr),
   order |-> 0]

\* S3 PutObject / DeleteObject on the store
PutObject(s, addr, body, size) ==
  {b \in s : b.addr # addr}
    \cup {[addr |-> addr, body |-> body, size |-> size]}
DeleteObject(s, addr) == {b \in s : b.addr # addr}

\* ------------------------------------------------- StorageService.upload*
\* A rejected upload rejects the await of the handler that called it: the
\* handler's callback throws, an open $transaction is rolled back, and the
\* handler only waits for nothing any more ("draining": uploads it started
\* with Promise.all keep running).
Throw ==
  /\ pc' = "draining"
  /\ tx' = NoTx
  /\ args' = NoArgs
  /\ snap' = NoSnap

\* what upload<Category> goes on with after compressImage (images only)
Processed(t) ==
  IF t.cat = "image" THEN compressImage(t.file, t.mimeType)
  ELSE [compressed |-> FALSE, mimeType |-> t.mimeType]

\* getImageMetadata of the buffer compressImage returned / getAudioMetadata
\* of the file buffer resolves; uploadDownload reads no metadata
MetadataOk(t) ==
  \/ t.cat = "download"
  \/ FileInfo[t.file].decodable
  \/ Processed(t).compressed

\* compressImage + getImageMetadata / getAudioMetadata resolved; the filename
\* is minted from Date.now() and the PutObject is sent
uploadProcess(i) ==
  /\ i \in DOMAIN tasks
  /\ tasks[i].pc = "process"
  /\ MetadataOk(tasks[i])
  /\ tasks' = [tasks EXCEPT ![i].pc = "put",
                 ![i].mimeType = Processed(tasks[i]).mimeType,
                 ![i].compressed = Processed(tasks[i]).compressed,
                 ![i].addr = AddrOf(tasks[i].cat, tasks[i].folder,
                                    tasks[i].file, clock),
                 ![i].s3 = Append(tasks[i].s3, "put")]
  /\ UNCHANGED <<clock, uploads, store, rows, artist, track, op, pc, args,
                 snap, tx, puts, everRows, removed>>
  /\ UNCHANGED <<req, sideVars>>

\* getImageMetadata / getAudioMetadata throws on a buffer it cannot parse
uploadProcessFails(i) ==
  /\ i \in DOMAIN tasks
  /\ tasks[i].pc = "process"
  /\ ~MetadataOk(tasks[i])
  /\ tasks' = [tasks EXCEPT ![i].pc = "failed"]
  /\ Throw
  /\ UNCHANGED <<clock, uploads, store, rows, artist, track, op, puts, everRows,
                 removed>>
  /\ UNCHANGED <<req, sideVars>>

\* uploadToS3 resolves
uploadToS3(i) ==
  /\ i \in DOMAIN tasks
  /\ tasks[i].pc = "put"
  /\ store' = PutObject(store, tasks[i].addr, tasks[i].id,
                        FileInfo[tasks[i].file].size)
  /\ puts' = puts \cup {[id |-> tasks[i].id, addr |-> tasks[i].addr]}
  /\ tasks' = [tasks EXCEPT ![i].pc = "row"]
  /\ UNCHANGED <<clock, uploads, rows, artist, track, op, pc, args,
                 snap, tx, everRows, removed>>
  /\ UNCHANGED <<req, sideVars>>

\* uploadToS3 with its error caught and dropped: the upload goes on to the
\* row without a blob
uploadToS3Fails_Swallowed(i) ==
  /\ i \in DOMAIN tasks
  /\ tasks[i].pc = "put"
  /\ tasks' = [tasks EXCEPT ![i].pc = "row"]
  /\ UNCHANGED <<clock, uploads, store, rows, artist, track, op, pc, args,
                 snap, tx, puts, everRows, removed>>
  /\ UNCHANGED <<req, sideVars>>

\* uploadToS3 throws 'Failed to upload file'
uploadToS3Fails(i) ==
  /\ i \in DOMAIN tasks
  /\ tasks[i].pc = "put"
  /\ tasks' = [tasks EXCEPT ![i].pc = "failed"]
  /\ Throw
  /\ UNCHANGED <<clock, uploads, store, rows, artist, track, op, puts, everRows,
                 removed>>
  /\ UNCHANGED <<req, sideVars>>

\* databaseService.<model>.create resolves (on the service's own client,
\* outside any $transaction of the caller)
uploadCreateRow(i) ==
  /\ i \in DOMAIN tasks
  /\ tasks[i].pc = "row"
  /\ rows' = rows \cup {NewRow(tasks[i])}
  /\ everRows' = everRows \cup {[id |-> tasks[i].id, addr |-> tasks[i].addr]}
  /\ UNCHANGED removed
  /\ tasks' = [tasks EXCEPT ![i].pc = "done"]
  /\ UNCHANGED <<clock, uploads, store, artist, track, op, pc, args,
                 snap, tx, puts>>
  /\ UNCHANGED <<req, sideVars>>

\* databaseService.<model>.create rejects; upload* has no catch around it
uploadCreateRowFails(i) ==
  /\ i \in DOMAIN tasks
  /\ tasks[i].pc = "row"
  /\ tasks' = [tasks EXCEPT ![i].pc = "failed", ![i].rowFailed = TRUE]
  /\ Throw
  /\ UNCHANGED <<clock, uploads, store, rows, artist, track, op, puts, everRows,
                 removed>>
  /\ UNCHANGED <<req, sideVars>>

\* Date.now() advances; followed only while an upload is about to read it
Tick ==
  /\ clock < MaxClock
  /\ \E i \in DOMAIN tasks : tasks[i].pc = "process"
  /\ clock' = clock + 1
  /\ UNCHANGED <<uploads, store, rows, artist, track, op, pc, args,
                 snap, tx, tasks, puts, everRows, removed>>
  /\ UNCHANGED <<req, sideVars>>

\* the handler has thrown and every upload it started has settled
Drained ==
  /\ op # "idle"
  /\ pc = "draining"
  /\ \A i \in DOMAIN tasks : Settled(tasks[i])
  /\ op' = "idle" /\ pc' = "idle"
  /\ tasks' = <<>>
  /\ UNCHANGED <<clock, uploads, store, rows, artist, track, args, snap, tx,
                 puts, everRows, removed>>
  /\ UNCHANGED <<req, sideVars>>

\* ------------------------------------------------------ StorageController
\* POST /storage/images/upload, POST /storage/audio/upload: the file passes
\* FileValidationPipe before the handler runs. uploadDownload has no endpoint
\* in the controller; the model calls it with files of the download policy.
StorageUpload(f, cat, isPublic) ==
  /\ op = "idle"
  /\ uploads < MaxUploads
  /\ FileValidationPipe(f, PolicyOf(cat)) = "ok"
  /\ op' = "storageUpload" /\ pc' = "upload"
  /\ uploads' = uploads + 1
  /\ tasks' = <<[NewTask(uploads + 1, f, cat,
                         IF cat = "image" THEN "images"
                         ELSE IF cat = "audio" THEN "audio"
                         ELSE "downloads",
                         isPublic)
                   EXCEPT !.mimeType = FileInfo[f].sniff]>>
  /\ UNCHANGED <<clock, store, rows, artist, track, args, snap, tx, puts, everRows,
                 removed>>
  /\ UNCHANGED <<req, sideVars>>

StorageUploadReturn ==
  /\ op = "storageUpload" /\ pc = "upload"
  /\ tasks[1].pc = "done"
  /\ op' = "idle" /\ pc' = "idle"
  /\ tasks' = <<>>
  /\ UNCHANGED <<clock, uploads, store, rows, artist, track, args, snap, tx,
                 puts, everRows, removed>>
  /\ UNCHANGED <<req, sideVars>>

\* --------------------------------------------------------- ArtistsService
\* files a client sends in the bannerImage / images fields: the artist
\* controller takes them with @UploadedFiles() and no validation pipe
ImageFieldFiles == {"ImgA", "ImgBig"}

SeqsUpTo(S, n) == UNION {[1..k -> S] : k \in 0..n}

\* imageOrders of the DTO: absent (<<>>) or one order per image. The DTO is
\* only read when the orders are written, so the model draws it there.
OrdersFor(g) == {<<>>} \cup [1..Len(g) -> 0..(Len(g) - 1)]

\* images.map((image, index) => uploadImage(image, ..., 'artists'))
GalleryTasks(g, firstId) ==
  [k \in 1..Len(g) |-> NewTask(firstId + k, g[k], "image", "artists", FALSE)]

\* imageOrders?.find((_, idx) => idx === index)?.order || fallback
OrderOf(orders, index, fallback) ==
  IF index + 1 <= Len(orders) /\ orders[index + 1] # 0
  THEN orders[index + 1] ELSE fallback

\* the order computed for each of n images by images.map((image, index) =>
\* ...) of create (existing = 0) and update (existing =
\* existingArtist.images.length)
AssignOrders(n, orders, existing) ==
  /\ dto' = [orders |-> orders, existing |-> existing,
             stored |-> [i \in 1..n |->
                           OrderOf(orders, i - 1, existing + i - 1)]]
  /\ UNCHANGED <<storeVars, req, pipe, cache, other, turn, auth>>

\* position of the first gallery upload in tasks, minus one
GalleryOffset == IF args.banner # None THEN 1 ELSE 0
GalleryIds == {tasks[i].id : i \in (GalleryOffset + 1)..Len(tasks)}

\* the handler goes on to the gallery uploads, or to the final update
StartGallery ==
  IF Len(args.gallery) > 0
  THEN /\ tasks' = tasks \o GalleryTasks(args.gallery, uploads)
       /\ uploads' = uploads + Len(args.gallery)
       /\ pc' = "gallery"
  ELSE /\ tasks' = tasks
       /\ uploads' = uploads
       /\ pc' = "commit"

StartBanner ==
  /\ tasks' = <<NewTask(uploads + 1, args.banner, "image", "artists", FALSE)>>
  /\ uploads' = uploads + 1
  /\ pc' = "banner"

\* ArtistsService.create up to the first await inside the $transaction
ArtistCreate(b, g) ==
  /\ op = "idle"
  /\ ~artist.exists
  /\ uploads + (IF b # None THEN 1 ELSE 0) + Len(g) <= MaxUploads
  /\ op' = "artistCreate"
  /\ args' = [NoArgs EXCEPT !.banner = b, !.gallery = g]
  /\ tx' = [active |-> TRUE, del |-> {}]
  /\ IF b # None
     THEN /\ tasks' = <<NewTask(uploads + 1, b, "image", "artists", FALSE)>>
          /\ uploads' = uploads + 1
          /\ pc' = "banner"
     ELSE IF Len(g) > 0
     THEN /\ tasks' = GalleryTasks(g, uploads)
          /\ uploads' = uploads + Len(g)
          /\ pc' = "gallery"
     ELSE /\ tasks' = <<>>
          /\ uploads' = uploads
          /\ pc' = "commit"
  /\ UNCHANGED <<clock, store, rows, artist, track, snap, puts,
                 everRows, removed>>
  /\ UNCHANGED <<req, sideVars>>

\* uploadImage(bannerImage) resolved: bannerImageId = uploadedBannerImage.id
ArtistBannerUploaded ==
  /\ op \in {"artistCreate", "artistUpdate"}
  /\ pc = "banner"
  /\ tasks[1].pc = "done"
  /\ args' = [args EXCEPT !.bannerImageId = tasks[1].id]
  /\ StartGallery
  /\ UNCHANGED <<clock, store, rows, artist, track, op, snap, tx, puts, everRows,
                 removed>>
  /\ UNCHANGED <<req, sideVars>>

\* Promise.all(imageUploadPromises) resolved
ArtistGalleryUploaded ==
  /\ op \in {"artistCreate", "artistUpdate"}
  /\ pc = "gallery"
  /\ \A i \in DOMAIN tasks : tasks[i].pc = "done"
  /\ pc' = "commit"
  /\ UNCHANGED <<clock, uploads, store, rows, artist, track, op, args, snap,
                 tx, tasks, puts, everRows, removed>>
  /\ UNCHANGED <<req, sideVars>>

\* rows after the tx.image.update calls of the new images and the deletes of
\* the transaction
CommittedRows(orders, fallbackBase) ==
  {IF r.id \in GalleryIds
   THEN [r EXCEPT !.order =
           LET index == (CHOOSE i \in DOMAIN tasks : tasks[i].id = r.id)
                        - GalleryOffset - 1
           IN OrderOf(orders, index, fallbackBase + index)]
   ELSE r : r \in {x \in rows : x.id \notin tx.del}}

\* tx.image.update (orders), tx.artist.update and the commit of create
ArtistCreateCommit(orders) ==
  /\ op = "artistCreate"
  /\ pc = "commit"
  /\ rows' = CommittedRows(orders, 0)
  /\ artist' = [exists |-> TRUE, bannerImageId |-> args.bannerImageId,
                images |-> GalleryIds]
  /\ op' = "idle" /\ pc' = "idle"
  /\ tasks' = <<>> /\ args' = NoArgs /\ snap' = NoSnap /\ tx' = NoTx
  /\ UNCHANGED <<clock, uploads, store, track, puts, everRows, removed>>
  /\ UNCHANGED <<req, sideVars>>

\* one of the writes of the transaction (or its commit) rejects: rollback
ArtistCommitFails ==
  /\ op \in {"artistCreate", "artistUpdate", "artistRemove"}
  /\ pc = "commit"
  /\ Throw
  /\ UNCHANGED <<clock, uploads, store, rows, artist, track, op, tasks, puts, everRows,
                 removed>>
  /\ UNCHANGED <<req, sideVars>>

\* ArtistsService.update up to the first await inside the $transaction
ArtistUpdate(b, g) ==
  /\ op = "idle"
  /\ artist.exists
  /\ uploads + (IF b # None THEN 1 ELSE 0) + Len(g) <= MaxUploads
  /\ op' = "artistUpdate"
  /\ args' = [NoArgs EXCEPT !.banner = b, !.gallery = g,
                            !.bannerImageId = artist.bannerImageId]
  /\ tx' = [active |-> TRUE, del |-> {}]
  /\ LET old == {r \in rows : r.id = artist.bannerImageId} IN
     /\ snap' = [NoSnap EXCEPT
                   !.todo = IF b # None /\ old # {}
                            THEN <<CHOOSE r \in old : TRUE>> ELSE <<>>,
                   !.count = Cardinality(artist.images)]
     /\ IF b # None /\ old # {}
        THEN /\ tasks' = <<>> /\ uploads' = uploads /\ pc' = "delOldBlob"
        ELSE IF b # None
        THEN /\ tasks' = <<NewTask(uploads + 1, b, "image", "artists", FALSE)>>
             /\ uploads' = uploads + 1
             /\ pc' = "banner"
        ELSE IF Len(g) > 0
        THEN /\ tasks' = GalleryTasks(g, uploads)
             /\ uploads' = uploads + Len(g)
             /\ pc' = "gallery"
        ELSE /\ tasks' = <<>> /\ uploads' = uploads /\ pc' = "commit"
  /\ UNCHANGED <<clock, store, rows, artist, track, puts, everRows, removed>>
  /\ UNCHANGED <<req, sideVars>>

\* storageService.deleteFile(existingArtist.bannerImage...) resolved
ArtistUpdateDeleteOldBlob ==
  /\ op = "artistUpdate"
  /\ pc = "delOldBlob"
  /\ store' = DeleteObject(store, Head(snap.todo).addr)
  /\ pc' = "delOldRow"
  /\ UNCHANGED <<clock, uploads, rows, artist, track, op, args, snap, tx,
                 tasks, puts, everRows, removed>>
  /\ UNCHANGED <<req, sideVars>>

\* tx.image.delete(existingArtist.bannerImage.id) resolved, uploadImage of
\* the new banner is called
ArtistUpdateDeleteOldRow ==
  /\ op = "artistUpdate"
  /\ pc = "delOldRow"
  /\ tx' = [tx EXCEPT !.del = tx.del \cup {Head(snap.todo).id}]
  /\ snap' = [snap EXCEPT !.todo = Tail(snap.todo)]
  /\ StartBanner
  /\ UNCHANGED <<clock, store, rows, artist, track, op, args, puts,
                 everRows, removed>>
  /\ UNCHANGED <<req, sideVars>>

\* deleteFile or tx.image.delete rejects inside a $transaction callback
ArtistDeleteFails ==
  /\ op \in {"artistUpdate", "artistRemove"}
  /\ pc \in {"delOldBlob", "delOldRow", "delBlob", "delRow"}
  /\ Throw
  /\ UNCHANGED <<clock, uploads, store, rows, artist, track, op, tasks, puts, everRows,
                 removed>>
  /\ UNCHANGED <<req, sideVars>>

\* tx.image.update (orders), tx.artist.update and the commit of update
ArtistUpdateCommit(orders) ==
  /\ op = "artistUpdate"
  /\ pc = "commit"
  /\ rows' = CommittedRows(orders, snap.count)
  /\ artist' = [artist EXCEPT
                  !.bannerImageId = args.bannerImageId,
                  !.images = (artist.images \ tx.del) \cup GalleryIds]
  /\ op' = "idle" /\ pc' = "idle"
  /\ tasks' = <<>> /\ args' = NoArgs /\ snap' = NoSnap /\ tx' = NoTx
  /\ UNCHANGED <<clock, uploads, store, track, puts, everRows, removed>>
  /\ UNCHANGED <<req, sideVars>>

\* rows as a sequence in id order (the order a findUnique include returns)
RECURSIVE SeqOfRows(_)
SeqOfRows(S) ==
  IF S = {} THEN <<>>
  ELSE LET r == CHOOSE x \in S : \A y \in S : x.id <= y.id
       IN <<r>> \o SeqOfRows(S \ {r})

\* ArtistsService.removeImage up to deleteFile (no $transaction)
ArtistRemoveImage(imageId) ==
  /\ op = "idle"
  /\ artist.exists
  /\ imageId \in artist.images
  /\ op' = "removeImage" /\ pc' = "delBlob"
  /\ args' = [NoArgs EXCEPT !.imageId = imageId]
  /\ snap' = [NoSnap EXCEPT !.todo = <<Row(imageId)>>]
  /\ UNCHANGED <<clock, uploads, store, rows, artist, track, tx, tasks,
                 puts, everRows, removed>>
  /\ UNCHANGED <<req, sideVars>>

\* removeImage returning normally although the image is not in the gallery
RemoveImageNotFound_ReportsSuccess(imageId) ==
  /\ op = "idle"
  /\ ~(artist.exists /\ imageId \in artist.images)
  /\ op' = "removeImage" /\ pc' = "returned"
  /\ args' = [NoArgs EXCEPT !.imageId = imageId]
  /\ UNCHANGED <<clock, uploads, store, rows, artist, track, snap, tx,
                 tasks, puts, everRows, removed>>
  /\ UNCHANGED <<req, sideVars>>

\* removeImage when the artist is missing or the image is not among
\* artist.images: NotFoundException before anything is deleted
RemoveImageNotFound(imageId) ==
  /\ op = "idle"
  /\ ~(artist.exists /\ imageId \in artist.images)
  /\ op' = "removeImage" /\ pc' = "notFound"
  /\ args' = [NoArgs EXCEPT !.imageId = imageId]
  /\ UNCHANGED <<clock, uploads, store, rows, artist, track, snap, tx,
                 tasks, puts, everRows, removed>>
  /\ UNCHANGED <<req, sideVars>>

\* the NotFoundException reaches the client
RemoveImageRejected ==
  /\ op = "removeImage" /\ pc = "notFound"
  /\ op' = "idle" /\ pc' = "idle"
  /\ args' = NoArgs
  /\ UNCHANGED <<clock, uploads, store, rows, artist, track, snap, tx,
                 tasks, puts, everRows, removed>>
  /\ UNCHANGED <<req, sideVars>>

\* storageService.deleteFile(image.bucketName, image.key) resolved
RemoveImageDeleteBlob ==
  /\ op = "removeImage" /\ pc = "delBlob"
  /\ store' = DeleteObject(store, Head(snap.todo).addr)
  /\ pc' = "disconnect"
  /\ UNCHANGED <<clock, uploads, rows, artist, track, op, args, snap, tx,
                 tasks, puts, everRows, removed>>
  /\ UNCHANGED <<req, sideVars>>

\* databaseService.artist.update({images: {disconnect}}) resolved
RemoveImageDisconnect ==
  /\ op = "removeImage" /\ pc = "disconnect"
  /\ artist' = [artist EXCEPT !.images = artist.images \ {args.imageId}]
  /\ pc' = "delRow"
  /\ UNCHANGED <<clock, uploads, store, rows, track, op, args, snap, tx,
                 tasks, puts, everRows, removed>>
  /\ UNCHANGED <<req, sideVars>>

\* databaseService.image.delete resolved
RemoveImageDeleteRow ==
  /\ op = "removeImage" /\ pc = "delRow"
  /\ args.imageId \in RowIds
  /\ rows' = {r \in rows : r.id # args.imageId}
  /\ removed' = removed \cup {args.imageId}
  /\ op' = "idle" /\ pc' = "idle"
  /\ args' = NoArgs /\ snap' = NoSnap
  /\ UNCHANGED <<clock, uploads, store, artist, track, tx, tasks, puts,
                 everRows>>
  /\ UNCHANGED <<req, sideVars>>

\* databaseService.image.delete of a row another call has deleted: Prisma
\* rejects with "record to delete does not exist", which removeImage does
\* not catch
RemoveImageDeleteMissingRow ==
  /\ op = "removeImage" /\ pc = "delRow"
  /\ args.imageId \notin RowIds
  /\ Throw
  /\ UNCHANGED <<clock, uploads, store, rows, artist, track, op, tasks,
                 puts, everRows, removed>>
  /\ UNCHANGED <<req, sideVars>>

\* deleteFile, artist.update or image.delete of removeImage rejects
RemoveImageFails ==
  /\ op = "removeImage"
  /\ pc \in {"delBlob", "disconnect", "delRow"}
  /\ Throw
  /\ UNCHANGED <<clock, uploads, store, rows, artist, track, op, tasks, puts, everRows,
                 removed>>
  /\ UNCHANGED <<req, sideVars>>

\* ArtistsService.remove up to the first await inside the $transaction
\* (the artist of the model has no releases)
ArtistRemove ==
  /\ op = "idle"
  /\ artist.exists
  /\ op' = "artistRemove"
  /\ args' = NoArgs
  /\ tx' = [active |-> TRUE, del |-> {}]
  /\ LET todo == SeqOfRows({r \in rows : r.id = artist.bannerImageId})
                 \o SeqOfRows({r \in rows : r.id \in artist.images})
     IN /\ snap' = [NoSnap EXCEPT !.todo = todo]
        /\ pc' = IF todo = <<>> THEN "commit" ELSE "delBlob"
  /\ UNCHANGED <<clock, uploads, store, rows, artist, track, tasks, puts, everRows,
                 removed>>
  /\ UNCHANGED <<req, sideVars>>

\* storageService.deleteFile of the banner or of the next image resolved
ArtistRemoveDeleteBlob ==
  /\ op = "artistRemove" /\ pc = "delBlob"
  /\ store' = DeleteObject(store, Head(snap.todo).addr)
  /\ pc' = "delRow"
  /\ UNCHANGED <<clock, uploads, rows, artist, track, op, args, snap, tx,
                 tasks, puts, everRows, removed>>
  /\ UNCHANGED <<req, sideVars>>

\* tx.image.delete of the banner or of the next image resolved
ArtistRemoveDeleteRow ==
  /\ op = "artistRemove" /\ pc = "delRow"
  /\ tx' = [tx EXCEPT !.del = tx.del \cup {Head(snap.todo).id}]
  /\ snap' = [snap EXCEPT !.todo = Tail(snap.todo)]
  /\ pc' = IF Tail(snap.todo) = <<>> THEN "commit" ELSE "delBlob"
  /\ UNCHANGED <<clock, uploads, store, rows, artist, track, op, args, tasks,
                 puts, everRows, removed>>
  /\ UNCHANGED <<req, sideVars>>

\* tx.artist.delete and the commit of remove
ArtistRemoveCommit ==
  /\ op = "artistRemove" /\ pc = "commit"
  /\ rows' = {r \in rows : r.id \notin tx.del}
  /\ artist' = NoArtist
  /\ op' = "idle" /\ pc' = "idle"
  /\ args' = NoArgs /\ snap' = NoSnap /\ tx' = NoTx
  /\ UNCHANGED <<clock, uploads, store, track, tasks, puts, everRows, removed>>
  /\ UNCHANGED <<req, sideVars>>

\* ---------------------------------------------------------- TracksService
\* files that pass TracksController's FileValidationPipe(AUDIO_UPLOAD_CONFIG)
AudioFieldFiles == {f \in Files : FileValidationPipe(f, AUDIO_UPLOAD_CONFIG) = "ok"}

\* TracksService.create up to uploadAudio(audioFile, true)
TrackCreate(f) ==
  /\ op = "idle"
  /\ ~track.exists
  /\ uploads < MaxUploads
  /\ op' = "trackCreate" /\ pc' = "upload"
  /\ args' = NoArgs
  /\ tasks' = <<NewTask(uploads + 1, f, "audio", "audio", TRUE)>>
  /\ uploads' = uploads + 1
  /\ UNCHANGED <<clock, store, rows, artist, track, snap, tx, puts,
                 everRows, removed>>
  /\ UNCHANGED <<req, sideVars>>

\* uploadAudio, audioFile.findUnique and track.create resolved
TrackCreateSave ==
  /\ op = "trackCreate" /\ pc = "upload"
  /\ tasks[1].pc = "done"
  /\ track' = [exists |-> TRUE, audioFileId |-> tasks[1].id]
  /\ op' = "idle" /\ pc' = "idle"
  /\ tasks' = <<>> /\ args' = NoArgs
  /\ UNCHANGED <<clock, uploads, store, rows, artist, snap, tx, puts,
                 everRows, removed>>
  /\ UNCHANGED <<req, sideVars>>

\* TracksService.update with a new audio file, up to its first write;
TrackUpdate(f) ==
  /\ op = "idle"
  /\ track.exists
  /\ uploads < MaxUploads
  /\ op' = "trackUpdate"
  /\ args' = [NoArgs EXCEPT !.audio = f]
  /\ LET old == {r \in rows : r.id = track.audioFileId} IN
     /\ snap' = [NoSnap EXCEPT !.todo = SeqOfRows(old)]
     /\ IF old # {}
        THEN /\ tasks' = <<>> /\ uploads' = uploads /\ pc' = "delBlob"
        ELSE /\ tasks' = <<NewTask(uploads + 1, f, "audio", "audio", TRUE)>>
             /\ uploads' = uploads + 1
             /\ pc' = "upload"
  /\ UNCHANGED <<clock, store, rows, artist, track, tx, puts,
                 everRows, removed>>
  /\ UNCHANGED <<req, sideVars>>

\* storageService.deleteFile(audioFileRecord...) resolved
TrackUpdateDeleteBlob ==
  /\ op = "trackUpdate" /\ pc = "delBlob"
  /\ store' = DeleteObject(store, Head(snap.todo).addr)
  /\ pc' = "delRow"
  /\ UNCHANGED <<clock, uploads, rows, artist, track, op, args, snap, tx,
                 tasks, puts, everRows, removed>>
  /\ UNCHANGED <<req, sideVars>>

\* databaseService.audioFile.delete resolved (tracks.audioFileId is ON DELETE
\* SET NULL), uploadAudio(audioFile, true) is called
TrackUpdateDeleteRow ==
  /\ op = "trackUpdate" /\ pc = "delRow"
  /\ rows' = {r \in rows : r.id # Head(snap.todo).id}
  /\ track' = [track EXCEPT !.audioFileId = NoId]
  /\ snap' = NoSnap
  /\ tasks' = <<NewTask(uploads + 1, args.audio, "audio", "audio", TRUE)>>
  /\ uploads' = uploads + 1
  /\ pc' = "upload"
  /\ UNCHANGED <<clock, store, artist, op, args, tx, puts, everRows, removed>>
  /\ UNCHANGED <<req, sideVars>>

\* deleteFile, audioFile.delete, track.update or track.delete rejects
TrackWriteFails ==
  /\ op \in {"trackUpdate", "trackRemove", "trackCreate"}
  /\ \/ pc \in {"delBlob", "delRow", "delTrack"}
     \/ pc = "upload" /\ tasks[1].pc = "done"
  /\ Throw
  /\ UNCHANGED <<clock, uploads, store, rows, artist, track, op, tasks, puts, everRows,
                 removed>>
  /\ UNCHANGED <<req, sideVars>>

\* uploadAudio resolved; the trackNumber check passes and track.update resolves
TrackUpdateSave ==
  /\ op = "trackUpdate" /\ pc = "upload"
  /\ tasks[1].pc = "done"
  /\ track' = [track EXCEPT !.audioFileId = tasks[1].id]
  /\ op' = "idle" /\ pc' = "idle"
  /\ tasks' = <<>> /\ args' = NoArgs /\ snap' = NoSnap
  /\ UNCHANGED <<clock, uploads, store, rows, artist, tx, puts, everRows,
                 removed>>
  /\ UNCHANGED <<req, sideVars>>

\* uploadAudio resolved; the new trackNumber is taken by another track of the
\* release and the check throws BadRequestException
TrackUpdateConflict ==
  /\ op = "trackUpdate" /\ pc = "upload"
  /\ tasks[1].pc = "done"
  /\ Throw
  /\ UNCHANGED <<clock, uploads, store, rows, artist, track, op, tasks, puts, everRows,
                 removed>>
  /\ UNCHANGED <<req, sideVars>>

\* TracksService.remove up to its first write
TrackRemove ==
  /\ op = "idle"
  /\ track.exists
  /\ op' = "trackRemove"
  /\ args' = NoArgs
  /\ LET old == {r \in rows : r.id = track.audioFileId} IN
     /\ snap' = [NoSnap EXCEPT !.todo = SeqOfRows(old)]
     /\ pc' = IF old # {} THEN "delBlob" ELSE "delTrack"
  /\ UNCHANGED <<clock, uploads, store, rows, artist, track, tx, tasks,
                 puts, everRows, removed>>
  /\ UNCHANGED <<req, sideVars>>

\* storageService.deleteFile(track.audioFile...) resolved
TrackRemoveDeleteBlob ==
  /\ op = "trackRemove" /\ pc = "delBlob"
  /\ store' = DeleteObject(store, Head(snap.todo).addr)
  /\ pc' = "delRow"
  /\ UNCHANGED <<clock, uploads, rows, artist, track, op, args, snap, tx,
                 tasks, puts, everRows, removed>>
  /\ UNCHANGED <<req, sideVars>>

\* databaseService.audioFile.delete resolved
TrackRemoveDeleteRow ==
  /\ op = "trackRemove" /\ pc = "delRow"
  /\ rows' = {r \in rows : r.id # Head(snap.todo).id}
  /\ track' = [track EXCEPT !.audioFileId = NoId]
  /\ snap' = NoSnap
  /\ pc' = "delTrack"
  /\ UNCHANGED <<clock, uploads, store, artist, op, args, tx, tasks, puts, everRows,
                 removed>>
  /\ UNCHANGED <<req, sideVars>>

\* databaseService.track.delete resolved
TrackRemoveDeleteTrack ==
  /\ op = "trackRemove" /\ pc = "delTrack"
  /\ track' = NoTrack
  /\ op' = "idle" /\ pc' = "idle"
  /\ args' = NoArgs /\ snap' = NoSnap
  /\ UNCHANGED <<clock, uploads, store, rows, artist, tx, tasks, puts,
                 everRows, removed>>
  /\ UNCHANGED <<req, sideVars>>

\* ------------------------------------------------------- specification
StoreInit ==
  /\ clock = 0
  /\ uploads = 0
  /\ store = {}
  /\ rows = {}
  /\ artist = NoArtist
  /\ track = NoTrack
  /\ op = "idle"
  /\ pc = "idle"
  /\ args = NoArgs
  /\ snap = NoSnap
  /\ tx = NoTx
  /\ tasks = <<>>
  /\ puts = {}
  /\ everRows = {}
  /\ removed = {}

UploadStep ==
  \E i \in 1..(MaxGallery + 1) :
    \/ uploadProcess(i)
    \/ uploadProcessFails(i)
    \/ uploadToS3(i)
    \/ uploadToS3Fails(i)
    \/ uploadCreateRow(i)
    \/ uploadCreateRowFails(i)

StorageStep ==
  \/ /\ op = "idle"
     /\ \E f \in Files, cat \in {"image", "audio", "download"},
           isPublic \in BOOLEAN :
          /\ cat = "audio" \/ ~isPublic
          /\ StorageUpload(f, cat, isPublic)
  \/ StorageUploadReturn

ArtistStep ==
  \/ /\ op = "idle"
     /\ \E b \in ImageFieldFiles \cup {None},
           g \in SeqsUpTo(ImageFieldFiles, MaxGallery) :
          \/ ArtistCreate(b, g)
          \/ ArtistUpdate(b, g)
  \/ ArtistBannerUploaded
  \/ ArtistGalleryUploaded
  \/ \E o \in OrdersFor(args.gallery) : ArtistCreateCommit(o)
  \/ ArtistCommitFails
  \/ ArtistUpdateDeleteOldBlob
  \/ ArtistUpdateDeleteOldRow
  \/ ArtistDeleteFails
  \/ \E o \in OrdersFor(args.gallery) : ArtistUpdateCommit(o)
  \/ \E id \in 1..MaxUploads : ArtistRemoveImage(id)
  \/ \E id \in 1..MaxUploads : RemoveImageNotFound(id)
  \/ RemoveImageRejected
  \/ RemoveImageDeleteBlob
  \/ RemoveImageDisconnect
  \/ RemoveImageDeleteRow
  \/ RemoveImageFails
  \/ ArtistRemove
  \/ ArtistRemoveDeleteBlob
  \/ ArtistRemoveDeleteRow
  \/ ArtistRemoveCommit

\* ---------------------------------------------------------- ReleasesService
\* ReleasesService.remove on the release that holds the track (a release
\* without products, banner image and gallery images): findUnique, then the
\* $transaction is opened
ReleaseRemove ==
  /\ op = "idle"
  /\ track.exists
  /\ op' = "releaseRemove" /\ pc' = "commit"
  /\ args' = NoArgs
  /\ snap' = NoSnap
  /\ tx' = [active |-> TRUE, del |-> {}]
  /\ UNCHANGED <<clock, uploads, store, rows, artist, track, tasks, puts,
                 everRows, removed>>
  /\ UNCHANGED <<req, sideVars>>

\* tx.track.delete for each track, tx.release.delete and the commit: the
\* foreign key tracks.audioFileId points from the track to the audio file,
\* so deleting the track leaves the audio_files row alone
ReleaseRemoveCommit ==
  /\ op = "releaseRemove" /\ pc = "commit"
  /\ track' = NoTrack
  /\ op' = "idle" /\ pc' = "idle"
  /\ tx' = NoTx
  /\ UNCHANGED <<clock, uploads, store, rows, artist, args, snap, tasks,
                 puts, everRows, removed>>
  /\ UNCHANGED <<req, sideVars>>

\* a delete of the transaction rejects: rollback
ReleaseRemoveFails ==
  /\ op = "releaseRemove" /\ pc = "commit"
  /\ Throw
  /\ UNCHANGED <<clock, uploads, store, rows, artist, track, op, tasks,
                 puts, everRows, removed>>
  /\ UNCHANGED <<req, sideVars>>

TrackStep ==
  \/ \E f \in AudioFieldFiles : TrackCreate(f)
  \/ TrackCreateSave
  \/ \E f \in AudioFieldFiles : TrackUpdate(f)
  \/ TrackUpdateDeleteBlob
  \/ TrackUpdateDeleteRow
  \/ TrackWriteFails
  \/ TrackUpdateSave
  \/ TrackUpdateConflict
  \/ TrackRemove
  \/ TrackRemoveDeleteBlob
  \/ TrackRemoveDeleteRow
  \/ TrackRemoveDeleteTrack

StoreNext == UploadStep \/ StorageStep \/ ArtistStep \/ TrackStep
             \/ Tick \/ Drained

\* ------------------------------------------------------ audio streaming
\* GET /storage/audio/:id/stream (StorageController.streamAudio),
\* GET /tracks/:id/stream (TracksController.stream, TracksService.stream),
\* GET /storage/images/:id and GET /storage/downloads/:id.
\* A Range header "bytes=<start>-<end>" is [start, end]; end = NoEnd when
\* the part after the dash is empty. Byte positions are 0..MaxByte.
MaxByte == 5
NoEnd == -1
NoRange == [present |-> FALSE, start |-> 0, end |-> NoEnd]
Ranges ==
  {NoRange} \cup [present : {TRUE}, start : 0..MaxByte,
                  end : {NoEnd} \cup 0..MaxByte]

\* request.session.userId resolved by AuthService.validateUser: the role of
\* the user, None when there is no session or no such user
Sessions == {None, "CUSTOMER", "ADMIN"}
TrackId == 1

Endpoints == {"storage", "tracks", "images", "downloads"}
StreamEndpoints == {"storage", "tracks"}
\* the table an endpoint reads
CatOf(endpoint) ==
  CASE endpoint = "images" -> "image"
    [] endpoint = "downloads" -> "download"
    [] OTHER -> "audio"

NoResponse == [status |-> 0, error |-> None, contentLength |-> -1,
               rangeStart |-> -1, rangeEnd |-> -1, total |-> -1,
               body |-> NoId, from |-> -1, to |-> -1]
\* addr: bucketName and key of the row the handler resolved; s3: the
\* object-store calls it has issued; cause: the error the store threw
NoReq == [endpoint |-> None, id |-> NoId, session |-> None,
          range |-> NoRange, pc |-> "idle", user |-> None, row |-> NoId,
          addr |-> NoAddr, s3 |-> <<>>, total |-> -1, cause |-> None,
          response |-> NoResponse]

ErrorResponse(status, error) ==
  [NoResponse EXCEPT !.status = status, !.error = error]

\* one call of the S3 client
S3Call(name, first, last) == [op |-> name, first |-> first, last |-> last]

\* AuthGuard.canActivate: throws UnauthorizedException without a valid
\* session user
AuthGuard(session) == session # None
\* RolesGuard.canActivate: no @Roles on a handler means no role is required
RolesGuard(roles, user) == roles = {} \/ user \in roles
\* OptionalAuthGuard.canActivate: always true; request.user is the session
\* user, if any
OptionalAuthGuard(session) == TRUE

\* @Roles of the handler
RolesOf(endpoint) ==
  IF endpoint = "downloads" THEN {"ADMIN", "CUSTOMER"} ELSE {}

\* guards in front of a handler: class-level ones first
ClassGuardsPass(endpoint, session) ==
  IF endpoint # "tracks"
  THEN AuthGuard(session) /\ RolesGuard(RolesOf(endpoint), session)
  ELSE TRUE

\* the visibility check left out
AuthorizeVisibility_NoGate(row, user) == TRUE

\* `if (!audioFile.isPublic) { if (!req.user) 401 }`
AuthorizeVisibility(row, user) == row.isPublic \/ user # None

AudioRowIds == {r.id : r \in {x \in rows : x.cat = "audio"}}
RowIdsOf(cat) == {r.id : r \in {x \in rows : x.cat = cat}}

NotFoundError(endpoint) ==
  CASE endpoint = "images" -> "Image not found"
    [] endpoint = "downloads" -> "Download file not found"
    [] OTHER -> "Audio file not found"

\* the catch block of a handler with the error of the store passed through
CatchError_Leaks(endpoint, cause) == cause

\* the body a handler answers from its catch block
CatchError(endpoint, cause) ==
  CASE endpoint = "images" -> "Failed to serve image"
    [] endpoint = "downloads" -> "Failed to retrieve download file"
    [] OTHER -> "Failed to stream audio file"

StreamRequest(endpoint, id, session, range) ==
  /\ req.pc = "idle"
  /\ endpoint \in StreamEndpoints \/ range = NoRange
  /\ req' = [NoReq EXCEPT !.endpoint = endpoint, !.id = id,
               !.session = session, !.range = range, !.pc = "guards"]
  /\ UNCHANGED <<storeVars, sideVars>>

Respond(response) ==
  req' = [req EXCEPT !.pc = "done", !.response = response]

\* AuthGuard, RolesGuard (StorageController only), then OptionalAuthGuard
StreamGuards ==
  /\ req.pc = "guards"
  /\ IF ~ClassGuardsPass(req.endpoint, req.session)
     THEN Respond(IF AuthGuard(req.session)
                  THEN ErrorResponse(403, "Forbidden resource")
                  ELSE ErrorResponse(401, "Not authenticated"))
     ELSE /\ OptionalAuthGuard(req.session)
          /\ req' = [req EXCEPT !.user = req.session,
                       !.pc = IF req.endpoint = "tracks" THEN "track"
                              ELSE "resolve",
                       !.row = IF req.endpoint = "tracks" THEN NoId
                               ELSE req.id]
  /\ UNCHANGED <<storeVars, sideVars>>

\* TracksService.stream: track.findUnique with its audioFile
StreamFindTrack ==
  /\ req.pc = "track"
  /\ IF ~(track.exists /\ req.id = TrackId)
     THEN Respond(ErrorResponse(404, "Track not found"))
     ELSE IF track.audioFileId = NoId
     THEN Respond(ErrorResponse(404, "Audio file not found for this track"))
     ELSE req' = [req EXCEPT !.pc = "resolve", !.row = track.audioFileId]
  /\ UNCHANGED <<storeVars, sideVars>>

\* find<Category>ById, then (audio only) the visibility check
StreamResolve ==
  /\ req.pc = "resolve"
  /\ IF req.row \notin RowIdsOf(CatOf(req.endpoint))
     THEN Respond(ErrorResponse(404, NotFoundError(req.endpoint)))
     ELSE IF /\ req.endpoint \in StreamEndpoints
             /\ ~AuthorizeVisibility(Row(req.row), req.user)
     THEN Respond(ErrorResponse(401,
            "Authentication required for private audio files"))
     ELSE req' = [req EXCEPT !.addr = Row(req.row).addr,
                    !.pc = IF req.range.present THEN "head" ELSE "get"]
  /\ UNCHANGED <<storeVars, sideVars>>

Min(a, b) == IF a < b THEN a ELSE b

\* the errors a call of the store on addr can throw
StoreErrors(addr) ==
  {"ServiceUnavailable"}
    \cup (IF BlobExists(addr) THEN {} ELSE {"NoSuchKey"})

\* the store threw: getFile / getFileRange rethrow a fixed Error and the
\* catch of the handler answers 500
Caught(call, cause) ==
  req' = [req EXCEPT !.pc = "done", !.s3 = Append(@, call),
            !.cause = cause,
            !.response = ErrorResponse(500, CatchError(req.endpoint, cause))]

\* StorageService.getFile: one GetObject, and the 200 response
StreamGetFile ==
  /\ req.pc = "get"
  /\ \E b \in Blob(req.addr) :
       req' = [req EXCEPT !.pc = "done",
                 !.s3 = Append(@, S3Call("get", -1, -1)),
                 !.response = [NoResponse EXCEPT !.status = 200,
                                 !.contentLength = b.size, !.body = b.body,
                                 !.from = 0, !.to = b.size - 1]]
  /\ UNCHANGED <<storeVars, sideVars>>

\* a handler that would drop the catalog row of a blob it cannot read
StreamGetFileFails_DropsRow ==
  /\ req.pc = "get"
  /\ \E cause \in StoreErrors(req.addr) :
       Caught(S3Call("get", -1, -1), cause)
  /\ rows' = {r \in rows : r.addr # req.addr}
  /\ UNCHANGED <<clock, uploads, store, artist, track, op, pc, args, snap,
                 tx, tasks, puts, everRows, removed, sideVars>>

\* StorageService.getFile throws: the handler's catch block answers
StreamGetFileFails ==
  /\ req.pc = "get"
  /\ \E cause \in StoreErrors(req.addr) :
       Caught(S3Call("get", -1, -1), cause)
  /\ UNCHANGED <<storeVars, sideVars>>

\* StorageService.getFileRange, first half: HeadObject for the total size
StreamHead ==
  /\ req.pc = "head"
  /\ \E b \in Blob(req.addr) :
       req' = [req EXCEPT !.pc = "getRange",
                 !.s3 = Append(@, S3Call("head", -1, -1)),
                 !.total = b.size]
  /\ UNCHANGED <<storeVars, sideVars>>

StreamHeadFails ==
  /\ req.pc = "head"
  /\ \E cause \in StoreErrors(req.addr) :
       Caught(S3Call("head", -1, -1), cause)
  /\ UNCHANGED <<storeVars, sideVars>>

\* the end byte getFileRange asks S3 for
RangeActualEnd(end, totalSize) ==
  IF end # NoEnd THEN Min(end, totalSize - 1) ELSE totalSize - 1

\* the end byte of an open range taken to be the size
HeaderActualEnd_Size(end, totalSize) ==
  IF end # NoEnd THEN end ELSE totalSize

\* the end byte the handler writes into Content-Range
HeaderActualEnd(end, totalSize) ==
  IF end # NoEnd THEN end ELSE totalSize - 1

\* what S3 returns for GetObject with Range bytes=first-last on an object of
\* `size` bytes: the slice, or the whole object when last < first (a range
\* that is not well formed is ignored); a first byte past the end is an
\* InvalidRange error
S3Slice(first, last, size) ==
  IF last < first THEN [from |-> 0, to |-> size - 1]
  ELSE [from |-> first, to |-> Min(last, size - 1)]

\* getFileRange, second half (ranged GetObject), and the 206 response
StreamGetRange ==
  /\ req.pc = "getRange"
  /\ \E b \in Blob(req.addr) :
       LET last == RangeActualEnd(req.range.end, req.total)
           got == S3Slice(req.range.start, last, b.size)
       IN /\ req.range.start < b.size
          /\ req' = [req EXCEPT !.pc = "done",
                       !.s3 = Append(@, S3Call("getRange", req.range.start,
                                               last)),
                       !.response =
                         [NoResponse EXCEPT
                            !.status = 206,
                            !.contentLength = got.to - got.from + 1,
                            !.rangeStart = req.range.start,
                            !.rangeEnd = HeaderActualEnd(req.range.end,
                                                         req.total),
                            !.total = req.total, !.body = b.body,
                            !.from = got.from, !.to = got.to]]
  /\ UNCHANGED <<storeVars, sideVars>>

\* the ranged GetObject is refused: the first byte is past the end, or the
\* range is not well formed and the store is one that refuses such a range
\* rather than ignoring it
RangeErrors(first, last, addr) ==
  {c \in {"InvalidRange"} :
     \E b \in Blob(addr) : first >= b.size \/ last < first}

StreamGetRangeFails ==
  /\ req.pc = "getRange"
  /\ LET last == RangeActualEnd(req.range.end, req.total)
     IN \E cause \in StoreErrors(req.addr)
                       \cup RangeErrors(req.range.start, last, req.addr) :
          Caught(S3Call("getRange", req.range.start, last), cause)
  /\ UNCHANGED <<storeVars, sideVars>>

\* the response is sent; the next request may start
StreamClose ==
  /\ req.pc = "done"
  /\ req' = NoReq
  /\ UNCHANGED <<storeVars, sideVars>>

\* the catalog a request runs against: a public and a private audio row, an
\* image row and a download row as upload<Category> writes them, blobs that
\* may be gone, and a track
StreamRow(id, isPublic, now) ==
  NewRow([NewTask(id, "AudA", "audio", "audio", isPublic)
            EXCEPT !.addr = AddrOf("audio", "audio", "AudA", now)])
ServeRow(id, f, cat, folder) ==
  NewRow([NewTask(id, f, cat, folder, FALSE)
            EXCEPT !.addr = AddrOf(cat, folder, f, 0)])
StreamRows ==
  {StreamRow(1, TRUE, 0), StreamRow(2, FALSE, 1),
   ServeRow(3, "ImgA", "image", "images"),
   ServeRow(4, "Zip", "download", "downloads")}
StreamBlobs ==
  {[addr |-> r.addr, body |-> r.id, size |-> FileInfo[r.file].size] :
     r \in StreamRows}
\* the stores a request may find: any of the audio blobs gone, the image and
\* download blobs both there or both gone
StreamStores ==
  {a \cup b : a \in SUBSET {x \in StreamBlobs : x.body \in {1, 2}},
              b \in {{}, {x \in StreamBlobs : x.body \in {3, 4}}}}

StreamInit ==
  /\ clock = MaxClock
  /\ uploads = Cardinality(StreamRows)
  /\ store \in StreamStores
  /\ rows = StreamRows
  /\ artist = NoArtist
  /\ track \in {NoTrack} \cup [exists : {TRUE}, audioFileId : 0..2]
  /\ op = "idle"
  /\ pc = "idle"
  /\ args = NoArgs
  /\ snap = NoSnap
  /\ tx = NoTx
  /\ tasks = <<>>
  /\ puts = {[id |-> r.id, addr |-> r.addr] : r \in StreamRows}
  /\ everRows = {[id |-> r.id, addr |-> r.addr] : r \in StreamRows}
  /\ removed = {}
  /\ req = NoReq
  /\ pipe = NoPipe
  /\ cache = NoCache
  /\ other = NoCall
  /\ turn = 1
  /\ auth = NoAuth
  /\ dto = NoDto

\* the client goes away while the handler is between two awaits: nothing
\* the handler sends any more is seen, and no handler has a close listener
StreamAbandon ==
  /\ req.pc \notin {"idle", "done"}
  /\ req' = NoReq
  /\ UNCHANGED <<storeVars, sideVars>>

StreamStep ==
  \/ \E endpoint \in Endpoints, id \in 0..Cardinality(StreamRows),
        session \in Sessions, range \in Ranges :
       StreamRequest(endpoint, id, session, range)
  \/ StreamGuards
  \/ StreamFindTrack
  \/ StreamResolve
  \/ StreamGetFile
  \/ StreamGetFileFails
  \/ StreamHead
  \/ StreamHeadFails
  \/ StreamGetRange
  \/ StreamGetRangeFails
  \/ StreamClose
  \/ StreamAbandon

\* ------------------------------------------------------ gallery reorder
\* ArtistsService.updateImageOrder and reorderSingleImage on the gallery of
\* the artist. A finished handler rests at pc "returned" or "rejected".
MaxImages == 3

\* the orders followed: a shift that leaves this range is not taken
OrderValues == -1..MaxImages

GalleryImages == {r \in rows : r.id \in artist.images}
GalleryOrder(id) == Row(id).order

\* artist.images as findUnique returns it with orderBy order asc (rows of
\* equal order come in either order)
SortedImages ==
  {s \in [1..Cardinality(GalleryImages) -> GalleryImages] :
     /\ \A i, j \in DOMAIN s : i # j => s[i] # s[j]
     /\ \A i, j \in DOMAIN s : i < j => s[i].order <= s[j].order}

\* the request bodies tried: at most one entry per image id (the updates run
\* in parallel, so the entries are listed by ascending id), ids and orders
\* from just outside the gallery included
ImageOrderInputs ==
  {io \in UNION {[1..l -> [imageId : 1..(MaxImages + 1),
                            order : -1..MaxImages]] : l \in 0..MaxImages} :
     \A i, j \in DOMAIN io : i < j => io[i].imageId < io[j].imageId}

OrdersOf(imageOrders) == {imageOrders[k].order : k \in DOMAIN imageOrders}

\* the three checks of updateImageOrder, in the order of the code
ImageOrdersAccepted(imageOrders, images) ==
  /\ \A k \in DOMAIN imageOrders :
       imageOrders[k].imageId \in {r.id : r \in images}
  /\ Cardinality(OrdersOf(imageOrders)) = Len(imageOrders)
  /\ \A o \in OrdersOf(imageOrders) : o >= 0 /\ o < Cardinality(images)

Reject(name) ==
  /\ op' = name
  /\ pc' = "rejected"
  /\ args' = NoArgs
  /\ snap' = NoSnap
  /\ UNCHANGED rows

\* updateImageOrder running its updates before its checks
UpdateImageOrder_ValidatesLast(imageOrders) ==
  /\ op = "idle"
  /\ op' = "updateImageOrder"
  /\ pc' = IF ~artist.exists
              \/ ~ImageOrdersAccepted(imageOrders, GalleryImages)
           THEN "rejected" ELSE "returned"
  /\ args' = NoArgs
  /\ snap' = NoSnap
  /\ rows' = {IF \E k \in DOMAIN imageOrders : imageOrders[k].imageId = r.id
              THEN [r EXCEPT !.order =
                      imageOrders[CHOOSE k \in DOMAIN imageOrders :
                                    imageOrders[k].imageId = r.id].order]
              ELSE r : r \in rows}
  /\ UNCHANGED <<clock, uploads, store, artist, track, tx, tasks, puts,
                 everRows, removed>>
  /\ UNCHANGED <<req, sideVars>>

\* updateImageOrder up to Promise.all: findUnique, the three checks (each
\* throws before any update is issued), then the updates are started
UpdateImageOrder(imageOrders) ==
  /\ op = "idle"
  /\ IF ~artist.exists \/ ~ImageOrdersAccepted(imageOrders, GalleryImages)
     THEN Reject("updateImageOrder")
     ELSE /\ op' = "updateImageOrder"
          /\ pc' = "updating"
          /\ args' = [NoArgs EXCEPT !.imageOrders = imageOrders]
          /\ snap' = [NoSnap EXCEPT !.todo = SeqOfRows(GalleryImages),
                        !.count = Cardinality(GalleryImages),
                        !.pending = DOMAIN imageOrders]
          /\ UNCHANGED rows
  /\ UNCHANGED <<clock, uploads, store, artist, track, tx, tasks, puts,
                 everRows, removed>>
  /\ UNCHANGED <<req, sideVars>>

\* one databaseService.image.update of the Promise.all
UpdateImageOrderWrite(k) ==
  /\ op = "updateImageOrder" /\ pc = "updating"
  /\ k \in snap.pending
  /\ rows' = {IF r.id = args.imageOrders[k].imageId
              THEN [r EXCEPT !.order = args.imageOrders[k].order]
              ELSE r : r \in rows}
  /\ snap' = [snap EXCEPT !.pending = @ \ {k}]
  /\ UNCHANGED <<clock, uploads, store, artist, track, op, pc, args, tx,
                 tasks, puts, everRows, removed>>
  /\ UNCHANGED <<req, sideVars>>

UpdateImageOrderWriteFails(k) ==
  /\ op = "updateImageOrder" /\ pc = "updating"
  /\ k \in snap.pending
  /\ snap' = [snap EXCEPT !.pending = @ \ {k}, !.thrown = TRUE]
  /\ UNCHANGED <<clock, uploads, store, rows, artist, track, op, pc, args,
                 tx, tasks, puts, everRows, removed>>
  /\ UNCHANGED <<req, sideVars>>

\* all updates settled: `return this.findOne(id)`, or the rejection
UpdateImageOrderReturn ==
  /\ op = "updateImageOrder" /\ pc = "updating"
  /\ snap.pending = {}
  /\ pc' = IF snap.thrown THEN "rejected" ELSE "returned"
  /\ UNCHANGED <<clock, uploads, store, rows, artist, track, op, args, snap,
                 tx, tasks, puts, everRows, removed>>
  /\ UNCHANGED <<req, sideVars>>

\* Array.prototype.slice(a, b) of the snapshot, as the set of row ids: a
\* negative index counts from the end, both are clamped to 0..length
SliceIndex(len, a) ==
  IF a < 0 THEN (IF len + a < 0 THEN 0 ELSE len + a)
  ELSE IF a > len THEN len ELSE a
SliceIds(s, a, b) ==
  {s[i + 1].id : i \in SliceIndex(Len(s), a)..(SliceIndex(Len(s), b) - 1)}
IndexOfImage(s, imageId) == {i \in DOMAIN s : s[i].id = imageId}

\* ArtistsService.findOne through this.databaseService: the gallery as the
\* committed rows have it (image id -> order)
findOne == [i \in artist.images |-> Row(i).order]

\* reorderSingleImage up to the $transaction: snapshot, the two checks, the
\* early return when the order does not change
ReorderSingleImage(imageId, newOrder) ==
  /\ op = "idle"
  /\ IF ~artist.exists \/ imageId \notin artist.images
        \/ newOrder < 0 \/ newOrder >= Cardinality(GalleryImages)
     THEN Reject("reorderSingleImage")
     ELSE \E s \in SortedImages :
            /\ op' = "reorderSingleImage"
            /\ pc' = IF GalleryOrder(imageId) = newOrder THEN "returned"
                     ELSE "tx"
            /\ args' = [NoArgs EXCEPT !.imageId = imageId,
                          !.newOrder = newOrder]
            /\ snap' = [NoSnap EXCEPT !.todo = s, !.count = Len(s),
                          !.result = IF GalleryOrder(imageId) = newOrder
                                     THEN findOne ELSE <<>>]
            /\ UNCHANGED rows
  /\ UNCHANGED <<clock, uploads, store, artist, track, tx, tasks, puts,
                 everRows, removed>>
  /\ UNCHANGED <<req, sideVars>>

\* the slices of the updateMany taken one position too early / too late
ShiftIds_OffByOne(s, currentOrder, newOrder) ==
  IF newOrder > currentOrder
  THEN SliceIds(s, currentOrder, newOrder)
  ELSE SliceIds(s, newOrder + 1, currentOrder + 1)

\* the rows the updateMany of the transaction shifts, and by how much
ShiftIds(s, currentOrder, newOrder) ==
  IF newOrder > currentOrder
  THEN SliceIds(s, currentOrder + 1, newOrder + 1)
  ELSE SliceIds(s, newOrder, currentOrder)
ShiftBy(currentOrder, newOrder) ==
  IF newOrder > currentOrder THEN -1 ELSE 1

\* the $transaction: updateMany (relative to the stored orders), the update
\* of the moved image, `return this.findOne(id)` (a read through the client
\* outside the transaction, before the commit: it sees the committed rows),
\* then the commit
ReorderCommit ==
  /\ op = "reorderSingleImage" /\ pc = "tx"
  /\ LET s == snap.todo
         imageIndex == CHOOSE i \in IndexOfImage(s, args.imageId) : TRUE
         currentOrder == s[imageIndex].order
         shifted == ShiftIds(s, currentOrder, args.newOrder)
     IN rows' = {IF r.id = args.imageId
                 THEN [r EXCEPT !.order = args.newOrder]
                 ELSE IF r.id \in shifted
                 THEN [r EXCEPT !.order =
                         @ + ShiftBy(currentOrder, args.newOrder)]
                 ELSE r : r \in rows}
  /\ \A r \in rows' : r.order \in OrderValues
  /\ snap' = [snap EXCEPT !.result = findOne]
  /\ pc' = "returned"
  /\ UNCHANGED <<clock, uploads, store, artist, track, op, args, tx,
                 tasks, puts, everRows, removed>>
  /\ UNCHANGED <<req, sideVars>>

\* a statement of the transaction throws: rollback
ReorderFails ==
  /\ op = "reorderSingleImage" /\ pc = "tx"
  /\ pc' = "rejected"
  /\ UNCHANGED <<clock, uploads, store, rows, artist, track, op, args, snap,
                 tx, tasks, puts, everRows, removed>>
  /\ UNCHANGED <<req, sideVars>>

\* the response is sent
GalleryClose ==
  /\ op \in {"updateImageOrder", "reorderSingleImage"}
  /\ pc \in {"returned", "rejected"}
  /\ op' = "idle"
  /\ pc' = "idle"
  /\ args' = NoArgs
  /\ snap' = NoSnap
  /\ UNCHANGED <<clock, uploads, store, rows, artist, track, tx, tasks,
                 puts, everRows, removed>>
  /\ UNCHANGED <<req, sideVars>>

\* two requests served by one event loop: at an await the running call is
\* parked and the other call runs on from where it was parked (or starts)
Switch ==
  /\ tx = NoTx /\ tasks = <<>>
  /\ other' = [op |-> op, pc |-> pc, args |-> args, snap |-> snap]
  /\ op' = other.op
  /\ pc' = other.pc
  /\ args' = other.args
  /\ snap' = other.snap
  /\ turn' = 3 - turn
  /\ UNCHANGED <<clock, uploads, store, rows, artist, track, tx, tasks,
                 puts, everRows, removed>>
  /\ UNCHANGED <<req, pipe, cache, auth, dto>>

\* a gallery of n images as ArtistsService.create leaves it: orders 0..n-1
GalleryRow(id) ==
  [NewRow([NewTask(id, "ImgA", "image", "artists", FALSE)
             EXCEPT !.addr = AddrOf("image", "artists", "ImgA", id)])
     EXCEPT !.order = id - 1]
GalleryRows(n) == {GalleryRow(id) : id \in 1..n}

GalleryInit ==
  \E n \in 1..MaxImages :
    /\ clock = 0
    /\ uploads = n
    /\ rows = GalleryRows(n)
    /\ store = {[addr |-> r.addr, body |-> r.id,
                 size |-> FileInfo[r.file].size] : r \in GalleryRows(n)}
    /\ artist = [exists |-> TRUE, bannerImageId |-> NoId, images |-> 1..n]
    /\ track = NoTrack
    /\ op = "idle"
    /\ pc = "idle"
    /\ args = NoArgs
    /\ snap = NoSnap
    /\ tx = NoTx
    /\ tasks = <<>>
    /\ puts = {[id |-> r.id, addr |-> r.addr] : r \in GalleryRows(n)}
    /\ everRows = {[id |-> r.id, addr |-> r.addr] : r \in GalleryRows(n)}
    /\ removed = {}
    /\ req = NoReq
    /\ pipe = NoPipe
    /\ cache = NoCache
    /\ other = NoCall
    /\ turn = 1
    /\ auth = NoAuth
    /\ dto = NoDto

GalleryStep ==
  \/ \E imageOrders \in ImageOrderInputs : UpdateImageOrder(imageOrders)
  \/ \E k \in 1..MaxImages : UpdateImageOrderWrite(k)
  \/ \E k \in 1..MaxImages : UpdateImageOrderWriteFails(k)
  \/ UpdateImageOrderReturn
  \/ \E imageId \in 1..(MaxImages + 1), newOrder \in -1..MaxImages :
       ReorderSingleImage(imageId, newOrder)
  \/ ReorderCommit
  \/ ReorderFails
  \/ GalleryClose

\* ------------------------------------------------------------ AuthService
\* POST /auth/login of one user with valid credentials. AuthService.login
\* deactivates the user's active session rows; AuthController.login then
\* saves the express session and creates the session row (isActive defaults
\* to true). At most MaxSessions rows are followed.
MaxSessions == 3
ActiveSessions == {x \in auth.sessions : x.isActive}

\* login up to session.updateMany: the user is found, active, and the
\* password matches
LoginStart(p) ==
  /\ auth.login[p] = "idle"
  /\ Cardinality(auth.sessions) < MaxSessions
  /\ auth' = [auth EXCEPT !.login[p] = "cleanup"]
  /\ UNCHANGED <<storeVars, req, pipe, cache, other, turn, dto>>

\* session.updateMany({userId, isActive: true} -> isActive: false) resolved
LoginCleanup(p) ==
  /\ auth.login[p] = "cleanup"
  /\ auth' = [auth EXCEPT
                 !.sessions = {[x EXCEPT !.isActive = FALSE] : x \in @},
                 !.login[p] = "create"]
  /\ UNCHANGED <<storeVars, req, pipe, cache, other, turn, dto>>

\* session.updateMany rejects: the catch block logs and login goes on
LoginCleanupFails(p) ==
  /\ auth.login[p] = "cleanup"
  /\ auth' = [auth EXCEPT !.login[p] = "create"]
  /\ UNCHANGED <<storeVars, req, pipe, cache, other, turn, dto>>

\* req.session.save, then session.create({sid: req.sessionID, userId, ...})
\* resolved
LoginCreate(p) ==
  /\ auth.login[p] = "create"
  /\ auth' = [auth EXCEPT
                 !.sessions = @ \cup {[sid |-> Cardinality(@) + 1,
                                       isActive |-> TRUE]},
                 !.login[p] = "done"]
  /\ UNCHANGED <<storeVars, req, pipe, cache, other, turn, dto>>

\* req.session.save or session.create fails: logged, 'Login successful'
LoginCreateFails(p) ==
  /\ auth.login[p] = "create"
  /\ auth' = [auth EXCEPT !.login[p] = "done"]
  /\ UNCHANGED <<storeVars, req, pipe, cache, other, turn, dto>>

\* the response is sent
LoginReturn(p) ==
  /\ auth.login[p] = "done"
  /\ auth' = [auth EXCEPT !.login[p] = "idle"]
  /\ UNCHANGED <<storeVars, req, pipe, cache, other, turn, dto>>

\* ------------------------------------------------- FileValidationPipe
\* POST /storage/images/upload and /storage/audio/upload: the file multer
\* parsed goes through FileValidationPipe(config), then to uploadImage /
\* uploadAudio. The files a client can send:
Names ==
  {[base |-> "", ext |-> ""], [base |-> "a", ext |-> ""],
   [base |-> "a", ext |-> ".jpg"], [base |-> "a", ext |-> ".JPG"],
   [base |-> "a", ext |-> ".mp3"]}
SizesFor(config) ==
  {config.maxFileSize - 1, config.maxFileSize, config.maxFileSize + 1}
DeclaredTypes == {"image/jpeg", "audio/mpeg", "application/x-msdownload"}
SniffedTypes ==
  {None, "image/jpeg", "image/gif", "audio/mpeg", "application/x-msdownload"}
ScriptOffsets ==
  {-1, 0, HEADER_SCAN_BYTES - MARKER_BYTES,
   HEADER_SCAN_BYTES - MARKER_BYTES + 1, HEADER_SCAN_BYTES,
   HEADER_BYTES - MARKER_BYTES, HEADER_BYTES}
\* the categories whose upload endpoints run the pipe
Categories == {"image", "audio"}
SentFiles(cat) ==
  {[base |-> n.base, ext |-> n.ext, size |-> z, declared |-> d,
    sniff |-> m, sig |-> g, scriptAt |-> k] :
     n \in Names, z \in SizesFor(PolicyOf(cat)), d \in DeclaredTypes,
     m \in SniffedTypes, g \in BOOLEAN, k \in ScriptOffsets}

\* the request arrives with its file
PipeReceive(cat, file) ==
  /\ pipe.pc = "idle"
  /\ pipe' = [NoPipe EXCEPT !.pc = "transform", !.cat = cat, !.file = file]
  /\ UNCHANGED <<storeVars, req, cache, parVars>>

\* FileValidationPipe.transform: BadRequestException, or the file with its
\* mimetype overwritten goes on to the handler
PipeTransform ==
  /\ pipe.pc = "transform"
  /\ LET outcome == Validate(pipe.file, PolicyOf(pipe.cat)) IN
       pipe' = [pipe EXCEPT
                  !.outcome = outcome,
                  !.mimetype = IF outcome = "ok"
                               THEN VerifiedMimeType(pipe.file) ELSE None,
                  !.pc = IF outcome = "ok" THEN "upload" ELSE "rejected"]
  /\ UNCHANGED <<storeVars, req, cache, parVars>>

\* uploadImage / uploadAudio on the validated file: the
\* mimeType written to the row (compressionResult.mimeType for an image,
\* file.mimetype otherwise)
PipeUpload(transcoded) ==
  /\ pipe.pc = "upload"
  /\ pipe' = [pipe EXCEPT
                 !.pc = "stored",
                 !.stored = IF pipe.cat = "image" /\ transcoded
                            THEN NarrowedMimeType(pipe.mimetype)
                            ELSE pipe.mimetype]
  /\ UNCHANGED <<storeVars, req, cache, parVars>>

\* the response is sent
PipeClose ==
  /\ pipe.pc \in {"rejected", "stored"}
  /\ pipe' = NoPipe
  /\ UNCHANGED <<storeVars, req, cache, parVars>>

\* ----------------------------------------------------------- CacheService
\* JSON.stringify(value): the text, None for undefined (which has no JSON
\* text)
JSONstringify(value) ==
  CASE value = JsNull -> "null"
    [] value = "js 0" -> "0"
    [] value = "js false" -> "false"
    [] value = "js object" -> "{}"
    [] OTHER -> None

\* JSON.parse(text)
JSONparse(text) ==
  CASE text = "null" -> JsNull
    [] text = "0" -> "js 0"
    [] text = "false" -> "js false"
    [] OTHER -> "js object"

\* CacheService.wrap(key, fn) is called
Wrap(key) ==
  /\ cache.pc = "idle"
  /\ cache' = [cache EXCEPT !.pc = "get", !.key = key]
  /\ UNCHANGED <<storeVars, req, pipe, parVars>>

\* this.get(key): null on a miss, JSON.parse of the value on a hit; wrap
\* returns it when `cached !== null`, else goes on to fn
WrapGet ==
  /\ cache.pc = "get"
  /\ LET value == cache.redis[cache.key]
         cached == IF value = None THEN JsNull ELSE JSONparse(value)
     IN cache' = [cache EXCEPT
                    !.cached = cached,
                    !.pc = IF cached # JsNull THEN "returned" ELSE "fn",
                    !.ret = IF cached # JsNull THEN cached ELSE None]
  /\ UNCHANGED <<storeVars, req, pipe, parVars>>

\* client.get rejects: get logs the error and returns null
WrapGetFails ==
  /\ cache.pc = "get"
  /\ cache' = [cache EXCEPT !.cached = JsNull, !.pc = "fn",
                            !.getFailed = TRUE]
  /\ UNCHANGED <<storeVars, req, pipe, parVars>>

\* `const result = await fn()`
WrapFn(result) ==
  /\ cache.pc = "fn"
  /\ cache' = [cache EXCEPT !.result = result, !.ranFn = TRUE, !.pc = "set"]
  /\ UNCHANGED <<storeVars, req, pipe, parVars>>

\* this.set(key, result, {}): client.set of the JSON text; a value without a
\* JSON text makes client.set throw, which set swallows
WrapSet ==
  /\ cache.pc = "set"
  /\ LET text == JSONstringify(cache.result) IN
       cache' = [cache EXCEPT
                   !.redis = IF text = None THEN @
                             ELSE [@ EXCEPT ![cache.key] = text],
                   !.pc = "returned", !.ret = cache.result]
  /\ UNCHANGED <<storeVars, req, pipe, parVars>>

\* client.set rejects: set logs the error and does not throw
WrapSetFails ==
  /\ cache.pc = "set"
  /\ cache' = [cache EXCEPT !.pc = "returned", !.ret = cache.result]
  /\ UNCHANGED <<storeVars, req, pipe, parVars>>

\* wrap has returned to its caller
WrapReturn ==
  /\ cache.pc = "returned"
  /\ cache' = [NoCache EXCEPT !.redis = cache.redis]
  /\ UNCHANGED <<storeVars, req, pipe, parVars>>

vars == <<storeVars, req, sideVars>>

\* Uploads, artist and track handlers, one request at a time
Init ==
  /\ StoreInit /\ req = NoReq /\ pipe = NoPipe /\ cache = NoCache
  /\ other = NoCall /\ turn = 1 /\ auth = NoAuth /\ dto = NoDto
Next == StoreNext
Spec == Init /\ [][Next]_vars

\* Stream requests against a fixed catalog
StreamNext == StreamStep
SpecStream == StreamInit /\ [][StreamNext]_vars

\* Reorder requests on a gallery, one request at a time
GalleryNext == GalleryStep
SpecGallery == GalleryInit /\ [][GalleryNext]_vars

\* reorderSingleImage requests only: the gallery stays as create left it
ReorderNext ==
  \/ \E imageId \in 1..(MaxImages + 1), newOrder \in -1..MaxImages :
       ReorderSingleImage(imageId, newOrder)
  \/ ReorderCommit
  \/ ReorderFails
  \/ GalleryClose
SpecReorder == GalleryInit /\ [][ReorderNext]_vars

\* updateImageOrder requests only, on a gallery as one create call with up
\* to MaxGallery images leaves it
OrderRequestInit == GalleryInit /\ Cardinality(rows) <= MaxGallery
OrderRequestNext ==
  \/ \E imageOrders \in ImageOrderInputs : UpdateImageOrder(imageOrders)
  \/ \E k \in 1..MaxImages : UpdateImageOrderWrite(k)
  \/ \E k \in 1..MaxImages : UpdateImageOrderWriteFails(k)
  \/ UpdateImageOrderReturn
  \/ GalleryClose
SpecOrderRequest == OrderRequestInit /\ [][OrderRequestNext]_vars

\* Two reorderSingleImage calls on one gallery, interleaved at their awaits
Reorder2Next ==
  \/ \E imageId \in 1..(MaxImages + 1), newOrder \in -1..MaxImages :
       ReorderSingleImage(imageId, newOrder)
  \/ ReorderCommit
  \/ ReorderFails
  \/ Switch
SpecReorder2 == GalleryInit /\ [][Reorder2Next]_vars

\* The orders create and update compute for up to MaxImages images, with
\* imageOrders absent or holding one order of 0..n-1 per image
OrdersNext ==
  \E n \in 1..MaxImages, existing \in 0..MaxImages :
    \E orders \in OrdersFor([k \in 1..n |-> "ImgA"]) :
      AssignOrders(n, orders, existing)
SpecOrders == Init /\ [][OrdersNext]_vars

\* Two removeImage calls on one gallery, interleaved at their awaits, with
\* a store and a database that do not fail on their own
Remove2Next ==
  \/ \E imageId \in 1..MaxImages : ArtistRemoveImage(imageId)
  \/ \E imageId \in 1..MaxImages : RemoveImageNotFound(imageId)
  \/ RemoveImageRejected
  \/ RemoveImageDeleteBlob
  \/ RemoveImageDisconnect
  \/ RemoveImageDeleteRow
  \/ RemoveImageDeleteMissingRow
  \/ Drained
  \/ Switch
SpecRemove2 == GalleryInit /\ [][Remove2Next]_vars

\* Tracks created, replaced and removed, and the release removed
ReleaseNext ==
  \/ \E f \in AudioFieldFiles : TrackCreate(f)
  \/ TrackCreateSave
  \/ \E f \in AudioFieldFiles : TrackUpdate(f)
  \/ TrackUpdateDeleteBlob
  \/ TrackUpdateDeleteRow
  \/ TrackUpdateSave
  \/ TrackUpdateConflict
  \/ TrackWriteFails
  \/ TrackRemove
  \/ TrackRemoveDeleteBlob
  \/ TrackRemoveDeleteRow
  \/ TrackRemoveDeleteTrack
  \/ ReleaseRemove
  \/ ReleaseRemoveCommit
  \/ ReleaseRemoveFails
  \/ \E i \in 1..MaxUploads : uploadProcess(i)
  \/ \E i \in 1..MaxUploads : uploadToS3(i)
  \/ \E i \in 1..MaxUploads : uploadToS3Fails(i)
  \/ \E i \in 1..MaxUploads : uploadCreateRow(i)
  \/ \E i \in 1..MaxUploads : uploadCreateRowFails(i)
  \/ Tick
  \/ Drained
SpecRelease == Init /\ [][ReleaseNext]_vars

\* Logins of one user, two of them at a time
LoginNext ==
  \/ \E p \in Logins : LoginStart(p)
  \/ \E p \in Logins : LoginCleanup(p)
  \/ \E p \in Logins : LoginCleanupFails(p)
  \/ \E p \in Logins : LoginCreate(p)
  \/ \E p \in Logins : LoginCreateFails(p)
  \/ \E p \in Logins : LoginReturn(p)
SpecLogin == Init /\ [][LoginNext]_vars

\* Upload requests at the validation pipe, one at a time
ValidateNext ==
  \/ \E cat \in Categories : \E file \in SentFiles(cat) :
       PipeReceive(cat, file)
  \/ PipeTransform
  \/ \E transcoded \in BOOLEAN : PipeUpload(transcoded)
  \/ PipeClose
SpecValidate == Init /\ [][ValidateNext]_vars

\* CacheService.wrap calls, one at a time, with no ttl and no del
CacheNext ==
  \/ \E key \in CacheKeys : Wrap(key)
  \/ WrapGet
  \/ WrapGetFails
  \/ \E result \in JsValues : WrapFn(result)
  \/ WrapSet
  \/ WrapSetFails
  \/ WrapReturn
SpecCache == Init /\ [][CacheNext]_vars

\* A track whose audio file is being replaced while it is streamed: the
\* catalog as TracksService.create left it (one public audio row, its blob)
ReplaceInit ==
  /\ clock = 0
  /\ uploads = 1
  /\ rows = {StreamRow(1, TRUE, 0)}
  /\ store = {b \in StreamBlobs : b.body = 1}
  /\ artist = NoArtist
  /\ track = [exists |-> TRUE, audioFileId |-> 1]
  /\ op = "idle"
  /\ pc = "idle"
  /\ args = NoArgs
  /\ snap = NoSnap
  /\ tx = NoTx
  /\ tasks = <<>>
  /\ puts = {[id |-> r.id, addr |-> r.addr] : r \in rows}
  /\ everRows = puts
  /\ removed = {}
  /\ req = NoReq
  /\ pipe = NoPipe
  /\ cache = NoCache
  /\ other = NoCall
  /\ turn = 1
  /\ auth = NoAuth
  /\ dto = NoDto

\* stream requests interleaved with TracksService.update
ReplaceNext ==
  \/ \E endpoint \in StreamEndpoints, session \in Sessions,
        range \in Ranges : StreamRequest(endpoint, TrackId, session, range)
  \/ StreamGuards
  \/ StreamFindTrack
  \/ StreamResolve
  \/ StreamGetFile
  \/ StreamGetFileFails
  \/ StreamHead
  \/ StreamHeadFails
  \/ StreamGetRange
  \/ StreamGetRangeFails
  \/ StreamClose
  \/ \E f \in AudioFieldFiles : TrackUpdate(f)
  \/ TrackUpdateDeleteBlob
  \/ TrackUpdateDeleteRow
  \/ TrackWriteFails
  \/ TrackUpdateSave
  \/ TrackUpdateConflict
  \/ \E i \in 1..MaxUploads : uploadProcess(i)
  \/ \E i \in 1..MaxUploads : uploadToS3(i)
  \/ \E i \in 1..MaxUploads : uploadToS3Fails(i)
  \/ \E i \in 1..MaxUploads : uploadCreateRow(i)
  \/ \E i \in 1..MaxUploads : uploadCreateRowFails(i)
  \/ Tick
  \/ Drained
SpecReplace == ReplaceInit /\ [][ReplaceNext]_vars

\* ------------------------------------------------------------ properties
Quiescent == op = "idle"

\* C1: in every quiescent state (no handler in progress), after any mix of
\* uploads, replaces, removeImage and remove, partial failures included,
\* every catalog row's (bucket, key) addresses a blob that exists.
C1_EveryRowHasItsBlob ==
  Quiescent => \A r \in rows : BlobExists(r.addr)

\* an upload call whose PutObject was rejected
PutFailed(t) == t.pc = "failed" /\ t.s3 = <<"put">> /\ ~t.rowFailed

\* C2: when the put of an upload fails, no catalog row exists afterwards for
\* the key the upload attempted, and the upload has added no row.
C2_FailedPutLeavesNoRow ==
  \A i \in DOMAIN tasks :
    PutFailed(tasks[i]) =>
      /\ \A r \in rows : r.addr # tasks[i].addr
      /\ tasks[i].id \notin RowIds

\* C3: every row ever created was preceded by a successful put of its own
\* key by the same upload, so rows created never outnumber successful puts.
C3_RowOnlyAfterItsPut ==
  /\ \A r \in everRows : r \in puts
  /\ Cardinality(everRows) <= Cardinality(puts)

\* C3 witness: an upload has put its blob and then written its row, and
\* another put was never followed by a row
C3_Witness ==
  /\ \E i \in DOMAIN tasks :
       tasks[i].pc = "done" /\ tasks[i].id \in RowIds
  /\ Cardinality(everRows) < Cardinality(puts)

\* C4: when the row write fails after the put succeeded, the upload issues
\* a compensating delete of the blob before the error surfaces.
C4_CompensatingDelete ==
  \A i \in DOMAIN tasks :
    tasks[i].rowFailed => tasks[i].s3 = <<"put", "delete">>

\* C5: a create that fails after some of its uploads succeeded leaves no
\* Image row created by that operation.
C5_FailedCreateLeavesNoRow ==
  (op = "artistCreate" /\ pc = "draining"
     /\ \A i \in DOMAIN tasks : Settled(tasks[i]))
    => \A i \in DOMAIN tasks : tasks[i].id \notin RowIds

\* C6: no two rows, alive or deleted, ever share a (bucket, key), and a put
\* never overwrites the blob of another row.
C6_KeysNeverShared ==
  /\ \A r1, r2 \in everRows : r1.addr = r2.addr => r1.id = r2.id
  /\ \A r \in rows : \A b \in Blob(r.addr) : b.body = r.id

\* C9: a row exists only for a file that passed the validator under the
\* policy of its category, whichever flow uploaded it.
C9_OnlyValidatedFilesGetRows ==
  \A r \in rows : FileValidationPipe(r.file, PolicyOf(r.cat)) = "ok"

\* the audio record a stream request addresses
StreamTarget ==
  IF req.endpoint = "storage" THEN req.id
  ELSE IF track.exists /\ req.id = TrackId THEN track.audioFileId
  ELSE NoId
TargetIsPrivate ==
  StreamTarget \in AudioRowIds /\ ~Row(StreamTarget).isPublic
TargetIsPublic ==
  StreamTarget \in AudioRowIds /\ Row(StreamTarget).isPublic

\* C7: a stream request on a record with isPublic = false that carries no
\* authenticated principal is answered 401, and no object-store get or
\* getRange (nor head) is issued for it.
C7_PrivateNeedsPrincipal ==
  (req.pc # "idle" /\ TargetIsPrivate /\ req.session = None)
    => /\ req.s3 = <<>>
       /\ req.pc = "done" => req.response.status = 401

\* C7 witness: the handler of GET /tracks/:id/stream has turned away an
\* unauthenticated request for a private record
C7_Witness ==
  /\ req.pc = "done" /\ req.endpoint = "tracks"
  /\ TargetIsPrivate /\ req.session = None
  /\ req.row = StreamTarget
  /\ req.response.status = 401

\* C8: GET /storage/audio/:id/stream answers 401 only for a record with
\* isPublic = false and no principal; an unauthenticated request for a
\* public record goes on to the fetch (200, 206 or 500), never 401.
C8_PublicStreamsWithoutPrincipal ==
  (req.endpoint = "storage" /\ req.pc = "done")
    => /\ req.response.status = 401
            => TargetIsPrivate /\ req.session = None
       /\ (TargetIsPublic /\ req.session = None)
            => req.response.status \in {200, 206, 500}

\* the gallery as the handler in progress read it had orders 0..n-1
StartedContiguous ==
  {snap.todo[i].order : i \in DOMAIN snap.todo} = 0..(Len(snap.todo) - 1)
\* the gallery has each of the orders 0..n-1 exactly once
OrdersContiguous ==
  \A o \in 0..(Cardinality(GalleryImages) - 1) :
    Cardinality({r \in GalleryImages : r.order = o}) = 1

\* C10: after any successful reorder (updateImageOrder with an accepted
\* request, or reorderSingleImage) of a gallery whose orders were exactly
\* 0..n-1, the orders are again exactly 0..n-1.
C10_ReorderKeepsOrdersContiguous ==
  (op \in {"updateImageOrder", "reorderSingleImage"} /\ pc = "returned"
     /\ StartedContiguous)
    => OrdersContiguous

\* C11: after any sequence of gallery operations on the artist (create with
\* images, update adding images, removeImage, ...) the orders of the n
\* gallery images are a contiguous permutation of 0..n-1, none shared.
C11_GalleryOrdersArePermutation ==
  (Quiescent /\ artist.exists) => OrdersContiguous

\* the accepted updateImageOrder request lists every image of the gallery
CoversGallery ==
  op = "updateImageOrder" => Len(args.imageOrders) = snap.count

\* C12: while a reorder is in progress (here: one that lists the whole
\* gallery and none of whose writes fails) a reader never sees two images
\* with the same order or an order of 0..n-1 missing: the order updates
\* become visible as one atomic batch.
C12_ReorderIsOneBatch ==
  (op \in {"updateImageOrder", "reorderSingleImage"}
     /\ pc \in {"updating", "tx"}
     /\ StartedContiguous /\ CoversGallery /\ ~snap.thrown)
    => OrdersContiguous

\* the order reorderSingleImage should leave an image with: o its order
\* before, c the order of the moved image before, t the target
ExpectedOrder(o, c, t) ==
  IF o = c THEN t
  ELSE IF t < c /\ t <= o /\ o <= c - 1 THEN o + 1
  ELSE IF t > c /\ c + 1 <= o /\ o <= t THEN o - 1
  ELSE o

SnapOrderOf(imageId) ==
  snap.todo[CHOOSE i \in DOMAIN snap.todo : snap.todo[i].id = imageId].order

\* C13: reorderSingleImage on a gallery with orders 0..n-1, moving the image
\* at c to t: for t < c the images formerly at t..c-1 move up by one, for
\* t > c those formerly at c+1..t move down by one, the moved image ends at
\* t and every other image keeps its position.
C13_ReorderShiftsTheRange ==
  (op = "reorderSingleImage" /\ pc = "returned" /\ StartedContiguous)
    => \A i \in DOMAIN snap.todo :
         Row(snap.todo[i].id).order =
           ExpectedOrder(snap.todo[i].order, SnapOrderOf(args.imageId),
                         args.newOrder)

\* C13 witness: an image was moved across another one, in a gallery of at
\* least three
C13_Witness ==
  /\ op = "reorderSingleImage" /\ pc = "returned"
  /\ StartedContiguous
  /\ Len(snap.todo) >= 3
  /\ \/ args.newOrder >= SnapOrderOf(args.imageId) + 2
     \/ args.newOrder + 2 <= SnapOrderOf(args.imageId)
  /\ Row(args.imageId).order = args.newOrder
\* a stream request has been answered 206 Partial Content
Answered206 == req.pc = "done" /\ req.response.status = 206

\* C16: a Range request whose end lies past the last byte N-1 of the stored
\* file is answered 206 with Content-Range "bytes start-(N-1)/N" and
\* Content-Length (N-1) - start + 1: the end reported never exceeds N-1 and
\* agrees with Content-Length.
C16_ContentRangeEndIsClamped ==
  (Answered206 /\ req.range.end # NoEnd
     /\ req.range.end > req.response.total - 1)
    => /\ req.response.rangeStart = req.range.start
       /\ req.response.rangeEnd = req.response.total - 1
       /\ req.response.contentLength =
            req.response.rangeEnd - req.response.rangeStart + 1

\* a handler has resolved its row, and the blob of that row, of `size` bytes
ResolvedBlobOfSize(size) ==
  req.addr # NoAddr /\ \E b \in Blob(req.addr) : b.size = size
\* the sizes a stored file can have
Sizes == {FileInfo[f].size : f \in Files}

\* C17: an authorized stream request with Range bytes=s-e, 0 <= s <= e <= N-1,
\* on a stored file of N bytes is answered 206 with Content-Length e-s+1 and
\* Content-Range "bytes s-e/N"; with bytes=s- it is answered 206 with the
\* bytes s..N-1 and Content-Range "bytes s-(N-1)/N".
C17_RangeWithinFile ==
  \A N \in Sizes :
    LET s == req.range.start
        e == IF req.range.end = NoEnd THEN N - 1 ELSE req.range.end
    IN (/\ req.pc = "done" /\ req.range.present /\ req.cause = None
        /\ ResolvedBlobOfSize(N)
        /\ 0 <= s /\ s <= e /\ e <= N - 1)
         => /\ req.response.status = 206
            /\ req.response.contentLength = e - s + 1
            /\ req.response.rangeStart = s
            /\ req.response.rangeEnd = e
            /\ req.response.total = N
            /\ req.response.from = s /\ req.response.to = e
            /\ \E b \in Blob(req.addr) : req.response.body = b.body

\* C17 witness: an authenticated request for bytes 1-2 of a private record
\* has been answered with these two bytes
C17_Witness ==
  /\ Answered206 /\ req.session # None
  /\ req.row \in AudioRowIds /\ ~Row(req.row).isPublic
  /\ req.range.start = 1 /\ req.range.end = 2
  /\ req.response.from = 1 /\ req.response.to = 2

\* C18: getFileRange on a blob of N >= 1 bytes with 0 <= start <= N-1 issues
\* one metadata probe, then one ranged fetch [start, clampedEnd], clampedEnd
\* being min(end, N-1) or N-1 when end is omitted, and returns totalSize N
\* and contentLength clampedEnd - start + 1; (0, N-1) returns the full file.
C18_OneProbeOneClampedFetch ==
  \A N \in Sizes :
    LET s == req.range.start
        clampedEnd == IF req.range.end = NoEnd THEN N - 1
                      ELSE Min(req.range.end, N - 1)
    IN (/\ req.pc = "done" /\ req.range.present
        /\ ResolvedBlobOfSize(N) /\ N >= 1 /\ 0 <= s /\ s <= N - 1
        /\ req.cause \in {None, "InvalidRange"})
         => /\ req.s3 = <<S3Call("head", -1, -1),
                          S3Call("getRange", s, clampedEnd)>>
            /\ req.cause = None
            /\ req.response.total = N
            /\ req.response.contentLength = clampedEnd - s + 1
            /\ (s = 0 /\ req.range.end = N - 1)
                 => req.response.from = 0 /\ req.response.to = N - 1

\* the bodies the catch blocks of the handlers answer
GenericErrors ==
  {"Failed to serve image", "Failed to stream audio file",
   "Failed to retrieve download file"}

\* C19: when an object-store operation of a serve or stream request fails
\* (probe, full fetch or ranged fetch, a missing blob of an existing row
\* included) the response is 500 with a fixed generic body: never 200 or
\* 206, no file bytes, no text of the backend error.
C19_StoreFailureIsGeneric500 ==
  /\ req.cause # None
       => /\ req.pc = "done"
          /\ req.response.status = 500
          /\ req.response.error \in GenericErrors
          /\ req.response.error # req.cause
          /\ req.response.body = NoId
          /\ req.response.from = -1 /\ req.response.to = -1
          /\ req.response.contentLength = -1
  /\ (req.pc = "done" /\ req.addr # NoAddr /\ ~BlobExists(req.addr))
       => req.cause # None /\ req.response.status = 500

\* C19 witness: GET /storage/images/:id of a row whose blob is gone has been
\* answered
C19_Witness ==
  /\ req.pc = "done" /\ req.endpoint = "images"
  /\ req.row \in RowIdsOf("image") /\ ~BlobExists(req.addr)
  /\ req.cause = "NoSuchKey"
  /\ req.response.status = 500

\* C20: removeImage called twice in sequence with the same image is safe: the
\* first call removes the row and the blob; the second reports NotFound and
\* changes neither the catalog nor the object store.
C20_SecondRemoveIsNotFound ==
  [][/\ (op = "removeImage" /\ pc = "delRow" /\ op' = "idle")
          => /\ args.imageId \notin RowIds'
             /\ args.imageId \notin artist'.images
             /\ \A b \in store' : b.addr # Head(snap.todo).addr
     /\ (op = "idle" /\ op' = "removeImage" /\ args'.imageId \in removed)
          => /\ pc' = "notFound"
             /\ store' = store /\ rows' = rows /\ artist' = artist
     /\ (op = "removeImage" /\ pc = "notFound")
          => /\ op' = "idle"
             /\ store' = store /\ rows' = rows /\ artist' = artist
    ]_vars

\* C20 witness: a second removeImage for an image that a first call has
\* removed, rejected with the artist still there
C20_Witness ==
  /\ op = "removeImage" /\ pc = "notFound"
  /\ artist.exists
  /\ args.imageId \in removed
  /\ args.imageId \notin RowIds

\* C15: in every replace path the old blob and the old row are deleted
\* before the upload of the new file is attempted; when that upload fails
\* the entity is left referencing no file: neither the old row nor a new one
\* exists.
C15_ReplaceDeletesOldFirst ==
  [][/\ (op = "artistUpdate" /\ pc = "delOldRow" /\ pc' = "banner")
          => /\ Head(snap.todo).id \in tx'.del
             /\ \A b \in store' : b.addr # Head(snap.todo).addr
     /\ (op = "trackUpdate" /\ pc = "delRow" /\ pc' = "upload")
          => /\ Head(snap.todo).id \notin RowIds'
             /\ \A b \in store' : b.addr # Head(snap.todo).addr
     /\ (op = "artistUpdate" /\ pc = "banner" /\ tx.del # {}
           /\ pc' = "draining")
          => /\ artist'.bannerImageId \notin RowIds'
             /\ tx.del \cap RowIds' = {}
             /\ tasks'[1].id \notin RowIds'
     /\ (op = "trackUpdate" /\ pc = "upload" /\ tasks[1].pc # "done"
           /\ pc' = "draining")
          => /\ track'.audioFileId \notin RowIds'
             /\ tasks'[1].id \notin RowIds'
    ]_vars

\* C14: a stream request that has resolved its row is not affected by a
\* concurrent replace of the file (track update with a new audio file): in
\* every interleaving it completes with the bytes of the blob it resolved,
\* never with a 500.
C14_StreamSurvivesReplace ==
  (/\ req.pc = "done" /\ req.addr # NoAddr
   /\ req.cause \notin {"ServiceUnavailable", "InvalidRange"})
    => /\ req.response.status \in {200, 206}
       /\ req.response.body = req.row

\* the asset of a row is gated: a download, or an audio file that is not
\* public
Gated(r) == r.cat = "download" \/ (r.cat = "audio" /\ ~r.isPublic)

\* C26: the url of a row is the marker private://{bucket}/{key} exactly when
\* its asset is gated (every DownloadFile, every AudioFile created with
\* isPublic = false), and the public form otherwise.
C26_UrlFormFollowsGating ==
  \A r \in rows :
    r.url = IF Gated(r) THEN generatePrivateUrl(r.addr)
            ELSE generatePublicUrl(r.addr)

\* C27: the key of an upload does not depend on the base of the original
\* name: an upload differing only in that base (same folder, timestamp and
\* extension) gets the same key, and no part of the base is in the key.
C27_KeyIgnoresBaseName ==
  \A r \in rows :
    \A g \in Files :
      FileInfo[g].ext = FileInfo[r.file].ext
        => AddrOf(r.cat, r.addr.key.folder, g, r.addr.key.filename.ts)
             = r.addr

\* an upload ended before anything was sent to the store
FailedInProcessing(t) == t.pc = "failed" /\ t.s3 = <<>>

\* C25: a transcode failure never fails an image upload: when the
\* compression fails, uploadImage goes on with the original buffer, stores
\* it, creates the row and returns.
C25_TranscodeFailureIsNotFatal ==
  \A i \in DOMAIN tasks :
    (tasks[i].cat = "image" /\ ~FileInfo[tasks[i].file].transcodable)
      => ~FailedInProcessing(tasks[i])

\* the formats compressImage writes
NarrowedMimeTypes == {"image/jpeg", "image/png", "image/webp"}

\* C28: every Image row has mimeType image/jpeg, image/png or image/webp:
\* JPEG, PNG and WebP inputs keep their format, any other input is recorded
\* as image/jpeg, on every outcome of the transcode step.
C28_ImageRowsHaveNarrowedType ==
  \A r \in rows : r.cat = "image" => r.mimeType \in NarrowedMimeTypes

\* C30: wrap(key, fn) executes fn only when the key is not in the cache:
\* once a wrap call has executed fn and stored its result, every later wrap
\* call for the key returns the stored result without executing fn, for
\* every value fn can return.
C30_WrapRunsFnOnlyOnMiss ==
  /\ (cache.pc \in {"fn", "set"} /\ ~cache.getFailed)
       => cache.redis[cache.key] = None
  /\ (cache.pc = "returned" /\ ~cache.ranFn)
       => cache.ret = JSONparse(cache.redis[cache.key])

\* the pipe has answered the request at hand
Validated == pipe.pc \in {"rejected", "upload", "stored"}
\* the file at the pipe with another declared content type
Redeclared(d) == [pipe.file EXCEPT !.declared = d]

\* C21 as stated: validation does not depend on the declared content type:
\* a buffer whose sniffed type is missing or not allowed is rejected for
\* every declared type, and for an accepted file the type used downstream
\* and stored in the row is the sniffed type.
C21_StoredTypeIsSniffedType ==
  Validated
    => /\ pipe.file.sniff \notin PolicyOf(pipe.cat).allowedMimeTypes
            => \A d \in DeclaredTypes :
                 Validate(Redeclared(d), PolicyOf(pipe.cat)) # "ok"
       /\ pipe.outcome = "ok" => pipe.mimetype = pipe.file.sniff
       /\ pipe.pc = "stored" => pipe.stored = pipe.file.sniff

\* C21 amended: the outcome is the same for every declared type, a buffer
\* whose sniffed type is missing or not allowed is rejected, the type handed
\* downstream is the sniffed type, and the type stored in the row is the
\* sniffed type or, for an image that was transcoded, the format
\* compressImage narrowed the sniffed type to.
C21_DeclaredTypeIsIgnored ==
  Validated
    => /\ \A d \in DeclaredTypes :
            Validate(Redeclared(d), PolicyOf(pipe.cat)) = pipe.outcome
       /\ pipe.file.sniff \notin PolicyOf(pipe.cat).allowedMimeTypes
            => pipe.outcome # "ok"
       /\ pipe.outcome = "ok" => pipe.mimetype = pipe.file.sniff
       /\ pipe.pc = "stored"
            => \/ pipe.stored = pipe.file.sniff
               \/ /\ pipe.cat = "image"
                  /\ pipe.stored = NarrowedMimeType(pipe.file.sniff)

\* C21 witness: a GIF declared as an executable type has been accepted,
\* transcoded and recorded as image/jpeg
C21_Witness ==
  /\ pipe.pc = "stored" /\ pipe.cat = "image"
  /\ pipe.file.sniff = "image/gif"
  /\ pipe.file.declared = "application/x-msdownload"
  /\ pipe.stored = "image/jpeg"

\* C22: validation rejects every file whose extension, compared without
\* case, is not in policy.allowedExtensions, for every filename: an empty or
\* absent one and one without a dot included.
C22_ExtensionOutsidePolicyRejected ==
  (Validated
     /\ ToLowerCase(pipe.file.ext)
          \notin PolicyOf(pipe.cat).allowedExtensions)
    => pipe.outcome # "ok"

\* C23: a file whose sniffed type is an image is rejected whenever a script
\* marker occurs at any offset within the first 1024 bytes of the buffer.
C23_ScriptMarkerInFirstKilobyte ==
  (Validated
     /\ pipe.file.sniff \in IMAGE_UPLOAD_CONFIG.allowedMimeTypes
     /\ pipe.file.scriptAt >= 0
     /\ pipe.file.scriptAt + MARKER_BYTES <= HEADER_BYTES)
    => pipe.outcome # "ok"

\* the file at the pipe passes every step other than the size check
PassesOtherSteps ==
  Validate([pipe.file EXCEPT !.size = 0], PolicyOf(pipe.cat)) = "ok"

\* C24: a file that passes every other step is accepted when its size is
\* exactly policy.maxFileSize and rejected when it is policy.maxFileSize + 1.
C24_SizeBoundary ==
  (Validated /\ PassesOtherSteps)
    => /\ pipe.file.size = PolicyOf(pipe.cat).maxFileSize
            => pipe.outcome = "ok"
       /\ pipe.file.size = PolicyOf(pipe.cat).maxFileSize + 1
            => pipe.outcome = "size"

\* C24 witness: an image of exactly maxFileSize bytes has been accepted
C24_Witness ==
  /\ pipe.pc = "upload" /\ pipe.cat = "image"
  /\ pipe.file.size = IMAGE_UPLOAD_CONFIG.maxFileSize
  /\ pipe.outcome = "ok"

\* C29: serving and streaming are side-effect-free: every step of an image,
\* audio-stream or download request, whatever its outcome and whenever it
\* is abandoned, leaves every catalog row and every blob of the store
\* unchanged.
C29_ServingChangesNothing ==
  [][rows' = rows /\ store' = store /\ track' = track]_vars

\* C29 witness: a request for a row whose blob is gone has been answered
\* with a 500, with the row still in the catalog
C29_Witness ==
  /\ req.pc = "done" /\ req.response.status = 500
  /\ \E r \in rows : r.addr = req.addr /\ Blob(r.addr) = {}
  /\ rows = StreamRows

\* both calls of a concurrent pair have finished
Finished == {"returned", "rejected"}
BothFinished == pc \in Finished /\ other.pc \in Finished

\* C31: two reorderSingleImage calls that run concurrently on one gallery
\* (orders 0..n-1 before both) leave the gallery with order values exactly
\* 0..n-1, for every interleaving.
C31_ConcurrentReordersKeepOrders ==
  (BothFinished /\ op = "reorderSingleImage"
     /\ other.op = "reorderSingleImage")
    => {r.order : r \in GalleryImages} = 0..(Cardinality(GalleryImages) - 1)

\* the step in which TracksService.update throws after uploadAudio resolved:
\* the trackNumber check finds the number taken
TrackNumberRejected ==
  /\ op = "trackUpdate" /\ pc = "upload"
  /\ tasks[1].pc = "done"
  /\ pc' = "draining"

\* C32: a track update rejected because the new track number already exists
\* in the release leaves the state unchanged: the track still references an
\* AudioFile whose row and blob exist, and no new AudioFile row or blob has
\* been created.
C32_RejectedUpdateChangesNothing ==
  [][TrackNumberRejected
       => /\ \A r \in rows' : r.id # tasks[1].id
          /\ \A b \in store' : b.addr # tasks[1].addr
          /\ track'.audioFileId \in {r.id : r \in rows'}]_vars

\* C33: when create or update is given n images with imageOrders holding
\* one entry per image, image i is stored with order imageOrders[i].order
\* for every i, an entry of order 0 at an index other than 0 included.
C33_SuppliedOrdersAreStored ==
  dto.orders # <<>>
    => \A i \in DOMAIN dto.stored : dto.stored[i] = dto.orders[i]

\* C34: the gallery returned by a successful reorderSingleImage reflects
\* the reorder it performed: in the returned entity the moved image has
\* order newOrder and the shifted images have their new order values.
C34_ReturnedGalleryIsReordered ==
  (op = "reorderSingleImage" /\ pc = "returned")
    => /\ snap.result[args.imageId] = args.newOrder
       /\ \A i \in artist.images : snap.result[i] = Row(i).order

\* C35: of two removeImage calls that run concurrently on one image, one
\* reports success and the other NotFound, never an unhandled storage or
\* database error, and afterwards neither the row nor the blob is left.
C35_ConcurrentRemoveIsNotFound ==
  /\ ~(op = "removeImage" /\ pc = "draining")
  /\ ~(other.op = "removeImage" /\ other.pc = "draining")
  /\ \A id \in removed :
       /\ id \notin RowIds
       /\ \A e \in everRows : e.id = id => ~BlobExists(e.addr)

\* the step in which ReleasesService.remove commits
ReleaseRemoved == op = "releaseRemove" /\ op' = "idle" /\ track' = NoTrack

\* C36: after a successful removal of a release no AudioFile row and no
\* audio blob that belonged to one of its tracks remains.
C36_ReleaseRemoveDeletesAudio ==
  [][ReleaseRemoved
       => \A r \in rows : r.id = track.audioFileId
            => /\ r \notin rows'
               /\ \A b \in store' : b.addr # r.addr]_vars

\* C37: single session per user: once all logins of the user have
\* completed, two concurrent logins included, at most one session row of
\* the user has isActive = true.
C37_AtMostOneActiveSession ==
  (\A p \in Logins : auth.login[p] \in {"idle", "done"})
    => Cardinality(ActiveSessions) <= 1

\* the step in which updateImageOrder is rejected by its checks
OrderRequestRejected ==
  op = "idle" /\ op' = "updateImageOrder" /\ pc' = "rejected"

\* C38: an updateImageOrder request rejected by validation (an image not of
\* this entity, duplicate order values, an order outside 0..n-1) writes
\* nothing: the order of every image of the gallery is unchanged.
C38_RejectedOrderRequestWritesNothing ==
  [][OrderRequestRejected => rows' = rows /\ artist' = artist]_vars

\* C38 witness: a request on a gallery of two images has been rejected by
\* the checks and the gallery is as create left it
C38_Witness ==
  /\ op = "updateImageOrder" /\ pc = "rejected" /\ ~snap.thrown
  /\ rows = GalleryRows(2)

====
